---- MODULE Spec2Model ----
(***************************************************************************)
(* State-machine model of the uCAN protocol layer (uCAN/Src/ucan.c,        *)
(* ucan_debug.c, ucan_runtime.c, uCAN/Inc/ucan_macros.h) and of the        *)
(* packet-list validation of the yCAN prototype (yCAN/Src/ycan.c).         *)
(*                                                                         *)
(* One handle (UCAN_HandleTypeDef) is modelled.  The application fills     *)
(* the handle and the UCAN_Config before the first call (as UCAN1_Init     *)
(* and UCAN1_Config of Core/Src/main.c do); every public function is one   *)
(* action.  The HAL primitives are the environment: each may fail, which   *)
(* is an input of the action that calls it.                                *)
(***************************************************************************)
EXTENDS Integers, Sequences, FiniteSets, TLC

(***************************************************************************)
(* Bounds of the model.                                                    *)
(***************************************************************************)
\* largest item_count a packet configuration declares (items[] holds 8)
MaxItemCount == 9
\* longest packet list of the identifier-exhaustive specification
MaxPackets == 2
\* largest packet identifier of the identifier-exhaustive specification
MaxId == 3
\* number of SysTick advances in one behaviour
MaxAdvances == 2
MaxTicks == 3

(***************************************************************************)
(* Program constants.                                                      *)
(***************************************************************************)
\* the null pointer to an array (a packet list, a client list): a value no
\* array equals
NULL == << [null |-> TRUE] >>
\* the null HAL handle pointer, and the handle the application passes
NullHandle == "NULL"
Hcan1 == "hcan1"
\* the null byte pointer (application variables are numbered from 1)
NullSlot == [ptr |-> 0, off |-> 0]

UCAN_NOT_INITIALIZED        == "UCAN_NOT_INITIALIZED"
UCAN_OK                     == "UCAN_OK"
UCAN_ERROR                  == "UCAN_ERROR"
UCAN_MISSING_VAL            == "UCAN_MISSING_VAL"
UCAN_INVALID_PARAM          == "UCAN_INVALID_PARAM"
UCAN_BUSY                   == "UCAN_BUSY"
UCAN_ERROR_DUPLICATE_ID     == "UCAN_ERROR_DUPLICATE_ID"
UCAN_ERROR_FILTER_CONFIG    == "UCAN_ERROR_FILTER_CONFIG"
UCAN_ERROR_CAN_START        == "UCAN_ERROR_CAN_START"
UCAN_ERROR_CAN_NOTIFICATION == "UCAN_ERROR_CAN_NOTIFICATION"
UCAN_ERROR_UNKNOWN_ID       == "UCAN_ERROR_UNKNOWN_ID"

YCAN_NOT_INITIALIZED == "YCAN_NOT_INITIALIZED"
YCAN_OK            == "YCAN_OK"
YCAN_MISSING_VAL   == "YCAN_MISSING_VAL"
YCAN_INVALID_PARAM == "YCAN_INVALID_PARAM"

UCAN_U8  == "UCAN_U8"
UCAN_U16 == "UCAN_U16"
UCAN_U32 == "UCAN_U32"
\* any value of the enum field that is none of the three enumerators
BAD_TYPE == "BAD_TYPE"

UCAN_ROLE_MASTER == "UCAN_ROLE_MASTER"
UCAN_ROLE_CLIENT == "UCAN_ROLE_CLIENT"
UCAN_ROLE_NONE   == "UCAN_ROLE_NONE"

UCAN_CONN_ACTIVE  == "UCAN_CONN_ACTIVE"
UCAN_CONN_LOST    == "UCAN_CONN_LOST"
UCAN_CONN_WAITING == "UCAN_CONN_WAITING"
UCAN_CONN_TIMEOUT == "UCAN_CONN_TIMEOUT"

CAN_FILTER_ENABLE  == "CAN_FILTER_ENABLE"
CAN_FILTER_DISABLE == "CAN_FILTER_DISABLE"

UCAN_HANDSHAKE_REQUEST_VALUE  == 165
UCAN_HANDSHAKE_RESPONSE_VALUE == 90
UCAN_HANDSHAKE_INTERVAL_MS    == 500
UCAN_HANDSHAKE_TIMEOUT_MS     == 700
UCAN_HANDSHAKE_LOST_MS        == 2000
YCAN_MAX_PACKET_COUNT         == 128
\* capacity of UCAN_PacketConfig.items[] and of UCAN_Packet.bits[]
UCAN_ITEM_CAPACITY            == 8
\* dlc and byte_idx are uint8_t
U8Modulus == 256

(***************************************************************************)
(* uint32_t.  TLC's integers are 32-bit signed, so a uint32_t (the tick    *)
(* counter, sentTick, responseTick) is carried as its two 16-bit halves    *)
(* [hi, lo]; the operators below are the C operators on uint32_t: they     *)
(* wrap modulo 2^32.                                                       *)
(***************************************************************************)
HalfWord == 256 * 256

\* the uint32_t with value n, for 0 <= n < 2^31
U32(n) == [hi |-> n \div HalfWord, lo |-> n % HalfWord]

U32Add(a, b) ==
    LET lo == a.lo + b.lo
    IN  [hi |-> (a.hi + b.hi + (lo \div HalfWord)) % HalfWord, lo |-> lo % HalfWord]

U32Sub(a, b) ==
    LET lo == a.lo - b.lo
    IN  [hi |-> (a.hi - b.hi - (IF lo < 0 THEN 1 ELSE 0)) % HalfWord, lo |-> lo % HalfWord]

U32Leq(a, b) == a.hi < b.hi \/ (a.hi = b.hi /\ a.lo <= b.lo)

U32Lt(a, b) == ~U32Leq(b, a)

UINT32_MAX == [hi |-> HalfWord - 1, lo |-> HalfWord - 1]

defaultFilterConfig == [FilterActivation |-> CAN_FILTER_ENABLE, origin |-> "default"]

(***************************************************************************)
(* Packet configuration: byte length and validation (ucan_debug.c).        *)
(* A UCAN_PacketConfig is [id, item_count, items]; items[j] is             *)
(* [ptr, type], ptr naming the bound application variable.  Entries of     *)
(* items beyond UCAN_ITEM_CAPACITY stand for the memory that follows the   *)
(* array, which the loops read when item_count exceeds the capacity.       *)
(***************************************************************************)
\* widths with the uint32_t case of two bytes (a faulty variant, to show that
\* the length properties depend on the widths)
TypeWidth_ShortU32(type) ==
    CASE type = UCAN_U8  -> 1
      [] type = UCAN_U16 -> 2
      [] type = UCAN_U32 -> 2
      [] OTHER           -> 0

TypeWidth(type) ==
    CASE type = UCAN_U8  -> 1
      [] type = UCAN_U16 -> 2
      [] type = UCAN_U32 -> 4
      [] OTHER           -> 0

RECURSIVE DlcLoop(_, _, _)
DlcLoop(pkt, i, dlc) ==
    IF i > pkt.item_count
    THEN dlc
    ELSE DlcLoop(pkt, i + 1, (dlc + TypeWidth(pkt.items[i].type)) % U8Modulus)

uCAN_Debug_Calculate_DLC(pkt) == DlcLoop(pkt, 1, 0)

\* the for loop over the list: the first packet whose length is out of range
\* ends it with UCAN_MISSING_VAL
\* (uCAN_Debug_CheckIsDataType, called on each packet, has no effect: its
\* result is dropped and assert_param expands to nothing unless the HAL is
\* built with USE_FULL_ASSERT)
CheckConfigLoop(configList, count) ==
    IF \E i \in 1..count :
          LET dlc == uCAN_Debug_Calculate_DLC(configList[i])
          IN  dlc > 8 \/ dlc = 0
    THEN UCAN_MISSING_VAL
    ELSE UCAN_OK

uCAN_Debug_CheckPacketConfig(configList, packetHolder) ==
    IF configList = NULL \/ packetHolder.count = 0
    THEN UCAN_INVALID_PARAM
    ELSE CheckConfigLoop(configList, packetHolder.count)

(***************************************************************************)
(* The yCAN prototype's validation (ycan.c): the same loop behind a guard  *)
(* that also bounds the packet count.                                      *)
(***************************************************************************)
Calculate_DLC(pkt) == DlcLoop(pkt, 1, 0)

yCheckLoop(packetList, packetCount) ==
    IF \E i \in 1..packetCount :
          LET dlc == Calculate_DLC(packetList[i])
          IN  dlc > 8 \/ dlc = 0
    THEN YCAN_MISSING_VAL
    ELSE YCAN_OK

yCAN_Check_Init_Values(packetList, packetCount) ==
    IF packetList = NULL \/ packetCount = 0 \/ packetCount > YCAN_MAX_PACKET_COUNT
    THEN YCAN_INVALID_PARAM
    ELSE yCheckLoop(packetList, packetCount)

(***************************************************************************)
(* Finalization (ucan_debug.c).  A UCAN_Packet is [id, dlc, bits]; bits    *)
(* has UCAN_ITEM_CAPACITY entries, each a byte pointer [ptr, off]: byte    *)
(* off of the variable ptr (NullSlot: the null pointer).                   *)
(***************************************************************************)
ZeroPacket == [id |-> 0, dlc |-> 0, bits |-> [k \in 1..UCAN_ITEM_CAPACITY |-> NullSlot]]

\* byte pointers with the two bytes of a uint16_t exchanged (a faulty variant,
\* to show that the byte plan properties depend on the order of the bytes)
ItemSlots_SwappedU16(item) ==
    CASE item.type = UCAN_U8  -> << [ptr |-> item.ptr, off |-> 0] >>
      [] item.type = UCAN_U16 -> << [ptr |-> item.ptr, off |-> 1],
                                    [ptr |-> item.ptr, off |-> 0] >>
      [] item.type = UCAN_U32 -> << [ptr |-> item.ptr, off |-> 0],
                                    [ptr |-> item.ptr, off |-> 1],
                                    [ptr |-> item.ptr, off |-> 2],
                                    [ptr |-> item.ptr, off |-> 3] >>
      [] OTHER                -> << >>

\* the byte pointers one item contributes, in the order they are stored
ItemSlots(item) ==
    CASE item.type = UCAN_U8  -> << [ptr |-> item.ptr, off |-> 0] >>
      [] item.type = UCAN_U16 -> << [ptr |-> item.ptr, off |-> 0],
                                    [ptr |-> item.ptr, off |-> 1] >>
      [] item.type = UCAN_U32 -> << [ptr |-> item.ptr, off |-> 0],
                                    [ptr |-> item.ptr, off |-> 1],
                                    [ptr |-> item.ptr, off |-> 2],
                                    [ptr |-> item.ptr, off |-> 3] >>
      [] OTHER                -> << >>

\* the while loop over the items of one configuration: bits[byte_idx++] = ...
\* (uCAN_Start finalizes validated lists only, so byte_idx stays within bits)
RECURSIVE FillBits(_, _, _, _)
FillBits(cfg, j, byte_idx, bits) ==
    IF j > cfg.item_count
    THEN bits
    ELSE LET s == ItemSlots(cfg.items[j])
         IN  FillBits(cfg, j + 1, byte_idx + Len(s),
                      [k \in 1..UCAN_ITEM_CAPACITY |->
                          IF k > byte_idx /\ k <= byte_idx + Len(s)
                          THEN s[k - byte_idx]
                          ELSE bits[k]])

\* packets[i] after the body of the for loop
FinalizeOne(cfg, old) ==
    [id   |-> cfg.id,
     dlc  |-> uCAN_Debug_Calculate_DLC(cfg),
     bits |-> FillBits(cfg, 1, 0, old.bits)]

\* a comparator of descending order (a faulty variant, to show that the
\* ordering properties depend on the comparator)
uCAN_Runtime_ComparePacketId_Descending(a, b) ==
    IF a.id > b.id THEN -1 ELSE IF a.id < b.id THEN 1 ELSE 0

uCAN_Runtime_ComparePacketId(a, b) ==
    IF a.id < b.id THEN -1 ELSE IF a.id > b.id THEN 1 ELSE 0

\* qsort: every arrangement of s that is ordered under the comparator (the
\* order of elements that compare equal is unspecified); when no two
\* elements compare equal there is one
QsortPackets(s) ==
    LET n == Len(s)
        t == SortSeq(s, LAMBDA a, b : uCAN_Runtime_ComparePacketId(a, b) < 0)
    IN  IF \A k \in 1..(n - 1) : uCAN_Runtime_ComparePacketId(t[k], t[k + 1]) # 0
        THEN { t }
        ELSE { [k \in 1..n |-> s[g[k]]] :
                 g \in { f \in [1..n -> 1..n] :
                           /\ \A k1 \in 1..n, k2 \in 1..n : f[k1] = f[k2] => k1 = k2
                           /\ \A k \in 1..(n - 1) :
                                 uCAN_Runtime_ComparePacketId(s[f[k]], s[f[k + 1]]) <= 0 } }

\* the set of holders uCAN_Debug_FinalizePacket may leave behind
uCAN_Debug_FinalizePacket(configPackets, packetHolder) ==
    LET filled == [i \in 1..packetHolder.count |->
                      FinalizeOne(configPackets[i], packetHolder.packets[i])]
    IN  { [count |-> packetHolder.count, packets |-> q] : q \in QsortPackets(filled) }

(***************************************************************************)
(* Identifier uniqueness (ucan_debug.c).                                   *)
(***************************************************************************)
\* a count over the tx holder alone (a faulty variant, to show that the
\* uniqueness properties depend on both loops)
uCAN_Debug_CheckUniqueID_TxOnly(id, tx, rx) ==
    LET idCounter == Cardinality({ i \in 1..tx.count : tx.packets[i].id = id })
    IN  IF idCounter > 1 THEN UCAN_ERROR_DUPLICATE_ID ELSE UCAN_OK

uCAN_Debug_CheckUniqueID(id, tx, rx) ==
    LET idCounter == Cardinality({ i \in 1..tx.count : tx.packets[i].id = id })
                   + Cardinality({ i \in 1..rx.count : rx.packets[i].id = id })
    IN  IF idCounter > 1 THEN UCAN_ERROR_DUPLICATE_ID ELSE UCAN_OK

\* one for loop over a holder: the first identifier that is not unique ends it
UniqueLoop(holder, tx, rx) ==
    IF \E i \in 1..holder.count :
          uCAN_Debug_CheckUniqueID(holder.packets[i].id, tx, rx) # UCAN_OK
    THEN UCAN_ERROR_DUPLICATE_ID
    ELSE UCAN_OK

uCAN_Debug_CheckUniquePackets(tx, rx) ==
    LET txStatus == UniqueLoop(tx, tx, rx)
    IN  IF txStatus # UCAN_OK THEN txStatus ELSE UniqueLoop(rx, tx, rx)

(***************************************************************************)
(* Handshake timing macros (ucan_macros.h).                                *)
(***************************************************************************)
UCAN_HANDSHAKE_TICK_DIFF(sentTick, responseTick) ==
    IF U32Leq(sentTick, responseTick)
    THEN U32Sub(responseTick, sentTick)
    ELSE U32Add(U32Add(U32Sub(UINT32_MAX, responseTick), sentTick), U32(1))

\* a timeout that begins at the threshold itself (a faulty variant, to show
\* that the properties notice the strict comparison)
UCAN_HANDSHAKE_IS_TIMEOUT_AtThreshold(sentTick, responseTick) ==
    /\ U32Leq(U32(UCAN_HANDSHAKE_TIMEOUT_MS), UCAN_HANDSHAKE_TICK_DIFF(sentTick, responseTick))
    /\ U32Lt(UCAN_HANDSHAKE_TICK_DIFF(sentTick, responseTick), U32(UCAN_HANDSHAKE_LOST_MS))

UCAN_HANDSHAKE_IS_TIMEOUT(sentTick, responseTick) ==
    /\ U32Lt(U32(UCAN_HANDSHAKE_TIMEOUT_MS), UCAN_HANDSHAKE_TICK_DIFF(sentTick, responseTick))
    /\ U32Lt(UCAN_HANDSHAKE_TICK_DIFF(sentTick, responseTick), U32(UCAN_HANDSHAKE_LOST_MS))

UCAN_HANDSHAKE_IS_LOST(sentTick, responseTick) ==
    U32Leq(U32(UCAN_HANDSHAKE_LOST_MS), UCAN_HANDSHAKE_TICK_DIFF(sentTick, responseTick))

(***************************************************************************)
(* The ready gate (ucan_macros.h): the status the macro returns, or READY  *)
(* when it falls through.                                                  *)
(***************************************************************************)
READY == "READY"

\* a gate that lacks the test for UCAN_NOT_INITIALIZED (a faulty variant, to
\* show that the gate properties depend on that test)
UCAN_CHECK_READY_NoInitTest(st) ==
    IF st = UCAN_ERROR THEN UCAN_ERROR
    ELSE IF st = UCAN_ERROR_DUPLICATE_ID THEN UCAN_ERROR_DUPLICATE_ID
    ELSE IF st = UCAN_ERROR_FILTER_CONFIG THEN UCAN_ERROR_FILTER_CONFIG
    ELSE IF st = UCAN_ERROR_CAN_START THEN UCAN_ERROR_CAN_START
    ELSE IF st = UCAN_ERROR_CAN_NOTIFICATION THEN UCAN_ERROR_CAN_NOTIFICATION
    ELSE IF st = UCAN_MISSING_VAL THEN UCAN_MISSING_VAL
    ELSE READY

UCAN_CHECK_READY(st) ==
    IF st = UCAN_NOT_INITIALIZED THEN UCAN_NOT_INITIALIZED
    ELSE IF st = UCAN_ERROR THEN UCAN_ERROR
    ELSE IF st = UCAN_ERROR_DUPLICATE_ID THEN UCAN_ERROR_DUPLICATE_ID
    ELSE IF st = UCAN_ERROR_FILTER_CONFIG THEN UCAN_ERROR_FILTER_CONFIG
    ELSE IF st = UCAN_ERROR_CAN_START THEN UCAN_ERROR_CAN_START
    ELSE IF st = UCAN_ERROR_CAN_NOTIFICATION THEN UCAN_ERROR_CAN_NOTIFICATION
    ELSE IF st = UCAN_MISSING_VAL THEN UCAN_MISSING_VAL
    ELSE READY

(***************************************************************************)
(* State.                                                                  *)
(***************************************************************************)
VARIABLES
    hcan,       \* ucan->hcan: NullHandle or the HAL handle
    filter,     \* ucan->filter
    node,       \* ucan->node: role, selfId, masterId, clients, clientCount, sentTick
    txHolder,   \* ucan->txHolder: count and the packets array
    rxHolder,   \* ucan->rxHolder
    status,     \* ucan->status
    config,     \* the application's UCAN_Config: txPacketList, rxPacketList
    mem,        \* the application variables the items point to, as bytes
    tick,       \* HAL_GetTick()
    advances,   \* SysTick advances so far (bounds the behaviour)
    ycan,       \* the yCAN prototype: isInitOk, _txMessage, _rxMessage
    last,       \* the last call: function, returned status, HAL calls it made
    started,    \* history: some uCAN_Start has returned UCAN_OK
    startFail,  \* history: the non-OK status the latest uCAN_Start returned
                \* since the latest successful uCAN_Init, or NONE
    answered    \* history: the clients whose valid response uCAN_Update has
                \* stored since the latest evaluation by uCAN_Handshake

vars == << hcan, filter, node, txHolder, rxHolder, status, config, mem,
           tick, advances, ycan, last, started, startFail, answered >>

NONE == "NONE"

\* one HAL call as the bus sees it
HalCall(name, ok) == [call |-> name, id |-> 0, dlc |-> 0, data |-> << >>, ok |-> ok]

Called(op, ret, bus) == [op |-> op, ret |-> ret, bus |-> bus]

(***************************************************************************)
(* Runtime helpers (ucan_runtime.c).                                       *)
(***************************************************************************)
\* a frame whose bytes are read through the byte pointers from the last to
\* the first (a faulty variant, to show that the payload properties depend
\* on the order of the bytes)
SendPacketFrame_Reversed(packet, m, ok) ==
    [call |-> "HAL_CAN_AddTxMessage",
     id   |-> packet.id,
     dlc  |-> packet.dlc,
     data |-> [i \in 1..packet.dlc |->
                  m[packet.bits[packet.dlc + 1 - i].ptr][packet.bits[packet.dlc + 1 - i].off + 1]],
     ok   |-> ok]

\* the frame uCAN_Runtime_SendPacket hands to HAL_CAN_AddTxMessage:
\* data[i] = *(packet->bits[i]) for i < dlc
SendPacketFrame(packet, m, ok) ==
    [call |-> "HAL_CAN_AddTxMessage",
     id   |-> packet.id,
     dlc  |-> packet.dlc,
     data |-> [i \in 1..packet.dlc |-> m[packet.bits[i].ptr][packet.bits[i].off + 1]],
     ok   |-> ok]

uCAN_Runtime_SendPacket(frame) == IF frame.ok THEN UCAN_OK ELSE UCAN_ERROR

\* the handshake frames: one byte, sent under the node's own identifier
PingFrame(nd, ok) ==
    [call |-> "HAL_CAN_AddTxMessage", id |-> nd.selfId, dlc |-> 1,
     data |-> << UCAN_HANDSHAKE_REQUEST_VALUE >>, ok |-> ok]

\* a reply sent under the identifier of the master (a faulty variant, to
\* show that the properties notice the identifier of the pong)
PongFrame_MasterId(nd, ok) ==
    [call |-> "HAL_CAN_AddTxMessage", id |-> nd.masterId, dlc |-> 1,
     data |-> << UCAN_HANDSHAKE_RESPONSE_VALUE >>, ok |-> ok]

PongFrame(nd, ok) ==
    [call |-> "HAL_CAN_AddTxMessage", id |-> nd.selfId, dlc |-> 1,
     data |-> << UCAN_HANDSHAKE_RESPONSE_VALUE >>, ok |-> ok]

\* a ping sent whatever the role of the node (a faulty variant, to show
\* that the properties notice a missing role test)
uCAN_Runtime_SendPing_AnyRole(nd, now, ok) ==
    IF U32Leq(U32(UCAN_HANDSHAKE_INTERVAL_MS), U32Sub(now, nd.sentTick))
    THEN [ret  |-> uCAN_Runtime_SendPacket(PingFrame(nd, ok)),
          node |-> [nd EXCEPT !.sentTick = now],
          bus  |-> << PingFrame(nd, ok) >>]
    ELSE [ret |-> UCAN_BUSY, node |-> nd, bus |-> << >>]

\* a ping that is sent at once on a node that has not sent one yet (a
\* faulty variant, to show that the properties notice the interval being
\* counted from tick zero)
uCAN_Runtime_SendPing_FirstAtOnce(nd, now, ok) ==
    IF nd.role # UCAN_ROLE_MASTER
    THEN [ret |-> UCAN_ERROR, node |-> nd, bus |-> << >>]
    ELSE IF nd.sentTick = U32(0)
            \/ U32Leq(U32(UCAN_HANDSHAKE_INTERVAL_MS), U32Sub(now, nd.sentTick))
    THEN [ret  |-> uCAN_Runtime_SendPacket(PingFrame(nd, ok)),
          node |-> [nd EXCEPT !.sentTick = now],
          bus  |-> << PingFrame(nd, ok) >>]
    ELSE [ret |-> UCAN_BUSY, node |-> nd, bus |-> << >>]

\* a ping that is due once the tick has reached sentTick + interval, the
\* sum taken in 32 bits (a faulty variant, to show that the properties
\* notice a comparison that the wrap of the counter breaks)
uCAN_Runtime_SendPing_Deadline(nd, now, ok) ==
    IF nd.role # UCAN_ROLE_MASTER
    THEN [ret |-> UCAN_ERROR, node |-> nd, bus |-> << >>]
    ELSE IF U32Leq(U32Add(nd.sentTick, U32(UCAN_HANDSHAKE_INTERVAL_MS)), now)
    THEN [ret  |-> uCAN_Runtime_SendPacket(PingFrame(nd, ok)),
          node |-> [nd EXCEPT !.sentTick = now],
          bus  |-> << PingFrame(nd, ok) >>]
    ELSE [ret |-> UCAN_BUSY, node |-> nd, bus |-> << >>]

\* a ping that records its tick only once the frame has been accepted (a
\* faulty variant, to show that the properties notice when sentTick is
\* written)
uCAN_Runtime_SendPing_StampOnSuccess(nd, now, ok) ==
    IF nd.role # UCAN_ROLE_MASTER
    THEN [ret |-> UCAN_ERROR, node |-> nd, bus |-> << >>]
    ELSE IF U32Leq(U32(UCAN_HANDSHAKE_INTERVAL_MS), U32Sub(now, nd.sentTick))
    THEN [ret  |-> uCAN_Runtime_SendPacket(PingFrame(nd, ok)),
          node |-> IF ok THEN [nd EXCEPT !.sentTick = now] ELSE nd,
          bus  |-> << PingFrame(nd, ok) >>]
    ELSE [ret |-> UCAN_BUSY, node |-> nd, bus |-> << >>]

\* uCAN_Runtime_SendPing: [ret, node, bus]
uCAN_Runtime_SendPing(nd, now, ok) ==
    IF nd.role # UCAN_ROLE_MASTER
    THEN [ret |-> UCAN_ERROR, node |-> nd, bus |-> << >>]
    ELSE IF U32Leq(U32(UCAN_HANDSHAKE_INTERVAL_MS), U32Sub(now, nd.sentTick))
    THEN [ret  |-> uCAN_Runtime_SendPacket(PingFrame(nd, ok)),
          node |-> [nd EXCEPT !.sentTick = now],
          bus  |-> << PingFrame(nd, ok) >>]
    ELSE [ret |-> UCAN_BUSY, node |-> nd, bus |-> << >>]

\* uCAN_Runtime_SendPong: [ret, bus]
uCAN_Runtime_SendPong(nd, ok) ==
    IF nd.role # UCAN_ROLE_CLIENT
    THEN [ret |-> UCAN_ERROR, bus |-> << >>]
    ELSE [ret |-> uCAN_Runtime_SendPacket(PongFrame(nd, ok)),
          bus |-> << PongFrame(nd, ok) >>]

\* a search that never looks at the last element (a faulty variant, to show
\* that the lookup properties depend on the search)
Bsearch_MissLast(ids, key) ==
    LET hits == { i \in 1..(Len(ids) - 1) : ids[i] = key }
    IN  IF hits = {} THEN {0} ELSE hits

IsOrdered(ids) == \A i \in 1..(Len(ids) - 1) : ids[i] <= ids[i + 1]

\* bsearch over an array with these keys: the indices it may return, 0 for
\* NULL.  On an ordered array it returns some element that compares equal,
\* NULL if there is none; on an array that is not ordered its result is not
\* defined: any element that compares equal, or NULL.
Bsearch(ids, key) ==
    LET hits == { i \in 1..Len(ids) : ids[i] = key }
    IN  IF IsOrdered(ids)
        THEN (IF hits = {} THEN {0} ELSE hits)
        ELSE hits \cup {0}

\* the copy loop of uCAN_Runtime_UpdatePacket: *(bits[i]) = aData[i], i < dlc
RECURSIVE WriteBytes(_, _, _, _)
WriteBytes(m, packet, aData, i) ==
    IF i > packet.dlc
    THEN m
    ELSE LET slot == packet.bits[i]
         IN  WriteBytes([m EXCEPT ![slot.ptr][slot.off + 1] = aData[i]],
                        packet, aData, i + 1)

\* uCAN_Runtime_UpdatePacket with bsearch returning index found: [ret, mem]
\* an update that stores the bytes and still reports the identifier as
\* unknown (a faulty variant, to show that the properties notice a frame
\* handed on to the handshake although its packet was found)
uCAN_Runtime_UpdatePacket_FallsThrough(holder, found, aData, m) ==
    [ret |-> UCAN_ERROR_UNKNOWN_ID,
     mem |-> IF found = 0 THEN m
             ELSE WriteBytes(m, holder.packets[found], aData, 1)]

uCAN_Runtime_UpdatePacket(holder, found, aData, m) ==
    IF found = 0
    THEN [ret |-> UCAN_ERROR_UNKNOWN_ID, mem |-> m]
    ELSE [ret |-> UCAN_OK, mem |-> WriteBytes(m, holder.packets[found], aData, 1)]

\* uCAN_Runtime_UpdateHandshake with bsearch returning index found:
\* [ret, node, bus]
\* three faulty variants of uCAN_Runtime_UpdateHandshake, to show that the
\* properties notice the test each of them lacks: a client that does not
\* test the sender, ...
uCAN_Runtime_UpdateHandshake_AnySender(nd, found, StdId, aData, now, pongOk) ==
    CASE nd.role = UCAN_ROLE_MASTER ->
            IF found = 0
            THEN [ret |-> UCAN_ERROR_UNKNOWN_ID, node |-> nd, bus |-> << >>]
            ELSE IF aData[1] # UCAN_HANDSHAKE_RESPONSE_VALUE
            THEN [ret |-> UCAN_ERROR, node |-> nd, bus |-> << >>]
            ELSE [ret  |-> UCAN_OK,
                  node |-> [nd EXCEPT !.clients[found].responseTick = now],
                  bus  |-> << >>]
      [] nd.role = UCAN_ROLE_CLIENT ->
            IF aData[1] # UCAN_HANDSHAKE_REQUEST_VALUE
            THEN [ret |-> UCAN_ERROR, node |-> nd, bus |-> << >>]
            ELSE [ret  |-> UCAN_OK,
                  node |-> [nd EXCEPT !.sentTick = now],
                  bus  |-> uCAN_Runtime_SendPong(nd, pongOk).bus]
      [] OTHER -> [ret |-> UCAN_OK, node |-> nd, bus |-> << >>]

\* ... a node without a role that rejects what it should ignore, ...
uCAN_Runtime_UpdateHandshake_NoneRejects(nd, found, StdId, aData, now, pongOk) ==
    CASE nd.role = UCAN_ROLE_MASTER ->
            IF found = 0
            THEN [ret |-> UCAN_ERROR_UNKNOWN_ID, node |-> nd, bus |-> << >>]
            ELSE IF aData[1] # UCAN_HANDSHAKE_RESPONSE_VALUE
            THEN [ret |-> UCAN_ERROR, node |-> nd, bus |-> << >>]
            ELSE [ret  |-> UCAN_OK,
                  node |-> [nd EXCEPT !.clients[found].responseTick = now],
                  bus  |-> << >>]
      [] nd.role = UCAN_ROLE_CLIENT ->
            IF StdId # nd.masterId
            THEN [ret |-> UCAN_ERROR_UNKNOWN_ID, node |-> nd, bus |-> << >>]
            ELSE IF aData[1] # UCAN_HANDSHAKE_REQUEST_VALUE
            THEN [ret |-> UCAN_ERROR, node |-> nd, bus |-> << >>]
            ELSE [ret  |-> UCAN_OK,
                  node |-> [nd EXCEPT !.sentTick = now],
                  bus  |-> uCAN_Runtime_SendPong(nd, pongOk).bus]
      [] OTHER -> [ret |-> UCAN_ERROR_UNKNOWN_ID, node |-> nd, bus |-> << >>]

\* ... and a master that does not test the response value
uCAN_Runtime_UpdateHandshake_AnyPayload(nd, found, StdId, aData, now, pongOk) ==
    CASE nd.role = UCAN_ROLE_MASTER ->
            IF found = 0
            THEN [ret |-> UCAN_ERROR_UNKNOWN_ID, node |-> nd, bus |-> << >>]
            ELSE [ret  |-> UCAN_OK,
                  node |-> [nd EXCEPT !.clients[found].responseTick = now],
                  bus  |-> << >>]
      [] nd.role = UCAN_ROLE_CLIENT ->
            IF StdId # nd.masterId
            THEN [ret |-> UCAN_ERROR_UNKNOWN_ID, node |-> nd, bus |-> << >>]
            ELSE IF aData[1] # UCAN_HANDSHAKE_REQUEST_VALUE
            THEN [ret |-> UCAN_ERROR, node |-> nd, bus |-> << >>]
            ELSE [ret  |-> UCAN_OK,
                  node |-> [nd EXCEPT !.sentTick = now],
                  bus  |-> uCAN_Runtime_SendPong(nd, pongOk).bus]
      [] OTHER -> [ret |-> UCAN_OK, node |-> nd, bus |-> << >>]

uCAN_Runtime_UpdateHandshake(nd, found, StdId, aData, now, pongOk) ==
    CASE nd.role = UCAN_ROLE_MASTER ->
            IF found = 0
            THEN [ret |-> UCAN_ERROR_UNKNOWN_ID, node |-> nd, bus |-> << >>]
            ELSE IF aData[1] # UCAN_HANDSHAKE_RESPONSE_VALUE
            THEN [ret |-> UCAN_ERROR, node |-> nd, bus |-> << >>]
            ELSE [ret  |-> UCAN_OK,
                  node |-> [nd EXCEPT !.clients[found].responseTick = now],
                  bus  |-> << >>]
      [] nd.role = UCAN_ROLE_CLIENT ->
            IF StdId # nd.masterId
            THEN [ret |-> UCAN_ERROR_UNKNOWN_ID, node |-> nd, bus |-> << >>]
            ELSE IF aData[1] # UCAN_HANDSHAKE_REQUEST_VALUE
            THEN [ret |-> UCAN_ERROR, node |-> nd, bus |-> << >>]
            ELSE [ret  |-> UCAN_OK,
                  node |-> [nd EXCEPT !.sentTick = now],
                  bus  |-> uCAN_Runtime_SendPong(nd, pongOk).bus]
      [] OTHER -> [ret |-> UCAN_OK, node |-> nd, bus |-> << >>]

\* a loop that leaves at the first client without a response (a faulty
\* variant, to show that the properties notice a break in place of the
\* continue)
RECURSIVE HandshakeLoop_StopsAtSilent(_, _, _, _)
HandshakeLoop_StopsAtSilent(nd, i, flag, clients) ==
    IF i > nd.clientCount
    THEN [flag |-> flag, clients |-> clients]
    ELSE IF clients[i].responseTick = U32(0)
    THEN [flag |-> UCAN_ERROR, clients |-> clients]
    ELSE IF UCAN_HANDSHAKE_IS_TIMEOUT(nd.sentTick, clients[i].responseTick)
    THEN HandshakeLoop_StopsAtSilent(nd, i + 1, UCAN_ERROR,
                       [clients EXCEPT ![i].status = UCAN_CONN_TIMEOUT])
    ELSE IF UCAN_HANDSHAKE_IS_LOST(nd.sentTick, clients[i].responseTick)
    THEN HandshakeLoop_StopsAtSilent(nd, i + 1, UCAN_ERROR,
                       [clients EXCEPT ![i].status = UCAN_CONN_LOST])
    ELSE HandshakeLoop_StopsAtSilent(nd, i + 1, flag,
                       [clients EXCEPT ![i].status = UCAN_CONN_ACTIVE])

\* a loop without the test for a client that has not answered yet (a faulty
\* variant, to show that the properties notice a silent client being
\* classified)
RECURSIVE HandshakeLoop_ClassifiesSilent(_, _, _, _)
HandshakeLoop_ClassifiesSilent(nd, i, flag, clients) ==
    IF i > nd.clientCount
    THEN [flag |-> flag, clients |-> clients]
    ELSE IF UCAN_HANDSHAKE_IS_TIMEOUT(nd.sentTick, clients[i].responseTick)
    THEN HandshakeLoop_ClassifiesSilent(nd, i + 1, UCAN_ERROR,
                       [clients EXCEPT ![i].status = UCAN_CONN_TIMEOUT])
    ELSE IF UCAN_HANDSHAKE_IS_LOST(nd.sentTick, clients[i].responseTick)
    THEN HandshakeLoop_ClassifiesSilent(nd, i + 1, UCAN_ERROR,
                       [clients EXCEPT ![i].status = UCAN_CONN_LOST])
    ELSE HandshakeLoop_ClassifiesSilent(nd, i + 1, flag,
                       [clients EXCEPT ![i].status = UCAN_CONN_ACTIVE])

\* the body of the for loop of uCAN_Handshake for client i: [flag, clients]
RECURSIVE HandshakeLoop(_, _, _, _)
HandshakeLoop(nd, i, flag, clients) ==
    IF i > nd.clientCount
    THEN [flag |-> flag, clients |-> clients]
    ELSE IF clients[i].responseTick = U32(0)
    THEN HandshakeLoop(nd, i + 1, UCAN_ERROR, clients)
    ELSE IF UCAN_HANDSHAKE_IS_TIMEOUT(nd.sentTick, clients[i].responseTick)
    THEN HandshakeLoop(nd, i + 1, UCAN_ERROR,
                       [clients EXCEPT ![i].status = UCAN_CONN_TIMEOUT])
    ELSE IF UCAN_HANDSHAKE_IS_LOST(nd.sentTick, clients[i].responseTick)
    THEN HandshakeLoop(nd, i + 1, UCAN_ERROR,
                       [clients EXCEPT ![i].status = UCAN_CONN_LOST])
    ELSE HandshakeLoop(nd, i + 1, flag,
                       [clients EXCEPT ![i].status = UCAN_CONN_ACTIVE])

(***************************************************************************)
(* The public functions (ucan.c), one action each.                         *)
(***************************************************************************)
\* an init that leaves a latched error status in place (a faulty variant, to
\* show that the properties notice an init that does not reset the status)
uCAN_Init_KeepsLatch ==
    /\ UNCHANGED << hcan, node, txHolder, rxHolder, config, mem, tick, advances, ycan,
                    started, answered >>
    /\ IF hcan = NullHandle \/ node.clients = NULL
       THEN /\ last' = Called("uCAN_Init", UCAN_INVALID_PARAM, << >>)
            /\ UNCHANGED << filter, status, startFail >>
       ELSE /\ filter' = IF filter.FilterActivation = CAN_FILTER_DISABLE
                         THEN defaultFilterConfig
                         ELSE filter
            /\ status' = IF UCAN_CHECK_READY(status) \in { READY, UCAN_NOT_INITIALIZED }
                         THEN UCAN_OK
                         ELSE status
            /\ startFail' = IF UCAN_CHECK_READY(status) \in { READY, UCAN_NOT_INITIALIZED }
                            THEN NONE
                            ELSE startFail
            /\ last' = Called("uCAN_Init", UCAN_OK, << >>)

uCAN_Init ==
    /\ UNCHANGED << hcan, node, txHolder, rxHolder, config, mem, tick, advances, ycan,
                    started, answered >>
    /\ IF hcan = NullHandle \/ node.clients = NULL
       THEN /\ last' = Called("uCAN_Init", UCAN_INVALID_PARAM, << >>)
            /\ UNCHANGED << filter, status, startFail >>
       ELSE /\ filter' = IF filter.FilterActivation = CAN_FILTER_DISABLE
                         THEN defaultFilterConfig
                         ELSE filter
            /\ status' = UCAN_OK
            /\ startFail' = NONE
            /\ last' = Called("uCAN_Init", UCAN_OK, << >>)

\* a start that configures the filter before it checks the identifiers (a
\* faulty variant, to show that the order of the two is observable)
StartTail_FilterFirst(txH, rxH, filterOk, startOk, notifOk) ==
    IF ~filterOk
    THEN [ret |-> UCAN_ERROR_FILTER_CONFIG,
          bus |-> << HalCall("HAL_CAN_ConfigFilter", FALSE) >>]
    ELSE IF uCAN_Debug_CheckUniquePackets(txH, rxH) # UCAN_OK
    THEN [ret |-> UCAN_ERROR_DUPLICATE_ID,
          bus |-> << HalCall("HAL_CAN_ConfigFilter", TRUE) >>]
    ELSE IF ~startOk
    THEN [ret |-> UCAN_ERROR_CAN_START,
          bus |-> << HalCall("HAL_CAN_ConfigFilter", TRUE),
                     HalCall("HAL_CAN_Start", FALSE) >>]
    ELSE IF ~notifOk
    THEN [ret |-> UCAN_ERROR_CAN_NOTIFICATION,
          bus |-> << HalCall("HAL_CAN_ConfigFilter", TRUE),
                     HalCall("HAL_CAN_Start", TRUE),
                     HalCall("HAL_CAN_ActivateNotification", FALSE) >>]
    ELSE [ret |-> UCAN_OK,
          bus |-> << HalCall("HAL_CAN_ConfigFilter", TRUE),
                     HalCall("HAL_CAN_Start", TRUE),
                     HalCall("HAL_CAN_ActivateNotification", TRUE) >>]

\* the peripheral started before its filter is configured (a faulty
\* variant, to show that the properties notice the order of the HAL calls)
StartTail_StartBeforeFilter(txH, rxH, filterOk, startOk, notifOk) ==
    IF uCAN_Debug_CheckUniquePackets(txH, rxH) # UCAN_OK
    THEN [ret |-> UCAN_ERROR_DUPLICATE_ID, bus |-> << >>]
    ELSE IF ~startOk
    THEN [ret |-> UCAN_ERROR_CAN_START,
          bus |-> << HalCall("HAL_CAN_Start", FALSE) >>]
    ELSE IF ~filterOk
    THEN [ret |-> UCAN_ERROR_FILTER_CONFIG,
          bus |-> << HalCall("HAL_CAN_Start", TRUE),
                     HalCall("HAL_CAN_ConfigFilter", FALSE) >>]
    ELSE IF ~notifOk
    THEN [ret |-> UCAN_ERROR_CAN_NOTIFICATION,
          bus |-> << HalCall("HAL_CAN_Start", TRUE),
                     HalCall("HAL_CAN_ConfigFilter", TRUE),
                     HalCall("HAL_CAN_ActivateNotification", FALSE) >>]
    ELSE [ret |-> UCAN_OK,
          bus |-> << HalCall("HAL_CAN_Start", TRUE),
                     HalCall("HAL_CAN_ConfigFilter", TRUE),
                     HalCall("HAL_CAN_ActivateNotification", TRUE) >>]

\* uCAN_Start from the duplicate check on, the holders being finalized:
\* the status returned and the HAL calls made
StartTail(txH, rxH, filterOk, startOk, notifOk) ==
    IF uCAN_Debug_CheckUniquePackets(txH, rxH) # UCAN_OK
    THEN [ret |-> UCAN_ERROR_DUPLICATE_ID, bus |-> << >>]
    ELSE IF ~filterOk
    THEN [ret |-> UCAN_ERROR_FILTER_CONFIG,
          bus |-> << HalCall("HAL_CAN_ConfigFilter", FALSE) >>]
    ELSE IF ~startOk
    THEN [ret |-> UCAN_ERROR_CAN_START,
          bus |-> << HalCall("HAL_CAN_ConfigFilter", TRUE),
                     HalCall("HAL_CAN_Start", FALSE) >>]
    ELSE IF ~notifOk
    THEN [ret |-> UCAN_ERROR_CAN_NOTIFICATION,
          bus |-> << HalCall("HAL_CAN_ConfigFilter", TRUE),
                     HalCall("HAL_CAN_Start", TRUE),
                     HalCall("HAL_CAN_ActivateNotification", FALSE) >>]
    ELSE [ret |-> UCAN_OK,
          bus |-> << HalCall("HAL_CAN_ConfigFilter", TRUE),
                     HalCall("HAL_CAN_Start", TRUE),
                     HalCall("HAL_CAN_ActivateNotification", TRUE) >>]

\* the history variables after a uCAN_Start that returned ret
StartHistory(ret) ==
    /\ started' = (started \/ ret = UCAN_OK)
    /\ startFail' = IF ret = UCAN_OK THEN NONE ELSE ret

\* a start that looks at the result of the rx list before that of the tx
\* list (a faulty variant, to show that the properties notice which of two
\* failures is reported)
uCAN_Start_RxFirst(filterOk, startOk, notifOk) ==
    LET gate        == UCAN_CHECK_READY(status)
        txListCheck == uCAN_Debug_CheckPacketConfig(config.txPacketList, txHolder)
        rxListCheck == uCAN_Debug_CheckPacketConfig(config.rxPacketList, rxHolder)
    IN
    /\ UNCHANGED << hcan, filter, node, config, mem, tick, advances, ycan, answered >>
    /\ IF gate # READY
       THEN /\ last' = Called("uCAN_Start", gate, << >>)
            /\ StartHistory(gate)
            /\ UNCHANGED << txHolder, rxHolder, status >>
       ELSE IF rxListCheck # UCAN_OK
       THEN /\ status' = rxListCheck
            /\ last' = Called("uCAN_Start", rxListCheck, << >>)
            /\ StartHistory(rxListCheck)
            /\ UNCHANGED << txHolder, rxHolder >>
       ELSE IF txListCheck # UCAN_OK
       THEN /\ status' = txListCheck
            /\ last' = Called("uCAN_Start", txListCheck, << >>)
            /\ StartHistory(txListCheck)
            /\ UNCHANGED << txHolder, rxHolder >>
       ELSE \E txH \in uCAN_Debug_FinalizePacket(config.txPacketList, txHolder),
               rxH \in uCAN_Debug_FinalizePacket(config.rxPacketList, rxHolder) :
               LET tail == StartTail(txH, rxH, filterOk, startOk, notifOk)
               IN  /\ txHolder' = txH
                   /\ rxHolder' = rxH
                   /\ status' = IF tail.ret = UCAN_OK THEN status ELSE tail.ret
                   /\ last' = Called("uCAN_Start", tail.ret, tail.bus)
                   /\ StartHistory(tail.ret)

uCAN_Start(filterOk, startOk, notifOk) ==
    LET gate        == UCAN_CHECK_READY(status)
        txListCheck == uCAN_Debug_CheckPacketConfig(config.txPacketList, txHolder)
        rxListCheck == uCAN_Debug_CheckPacketConfig(config.rxPacketList, rxHolder)
    IN
    /\ UNCHANGED << hcan, filter, node, config, mem, tick, advances, ycan, answered >>
    /\ IF gate # READY
       THEN /\ last' = Called("uCAN_Start", gate, << >>)
            /\ StartHistory(gate)
            /\ UNCHANGED << txHolder, rxHolder, status >>
       ELSE IF txListCheck # UCAN_OK
       THEN /\ status' = txListCheck
            /\ last' = Called("uCAN_Start", txListCheck, << >>)
            /\ StartHistory(txListCheck)
            /\ UNCHANGED << txHolder, rxHolder >>
       ELSE IF rxListCheck # UCAN_OK
       THEN /\ status' = rxListCheck
            /\ last' = Called("uCAN_Start", rxListCheck, << >>)
            /\ StartHistory(rxListCheck)
            /\ UNCHANGED << txHolder, rxHolder >>
       ELSE \E txH \in uCAN_Debug_FinalizePacket(config.txPacketList, txHolder),
               rxH \in uCAN_Debug_FinalizePacket(config.rxPacketList, rxHolder) :
               LET tail == StartTail(txH, rxH, filterOk, startOk, notifOk)
               IN  /\ txHolder' = txH
                   /\ rxHolder' = rxH
                   /\ status' = IF tail.ret = UCAN_OK THEN status ELSE tail.ret
                   /\ last' = Called("uCAN_Start", tail.ret, tail.bus)
                   /\ StartHistory(tail.ret)

\* a loop that goes on to the following packets after a failed send (a
\* faulty variant, to show that the properties notice a missing early return)
SendAllFrames_KeepsGoing(holder, m, failAt) ==
    [i \in 1..holder.count |-> SendPacketFrame(holder.packets[i], m, i # failAt)]

\* the frames the for loop of uCAN_SendAll submits when the bus send of
\* packet failAt fails (failAt = 0: none fails)
SendAllFrames(holder, m, failAt) ==
    [i \in 1..(IF failAt = 0 THEN holder.count ELSE failAt) |->
        SendPacketFrame(holder.packets[i], m, i # failAt)]

uCAN_SendAll(failAt, pingOk) ==
    LET gate   == UCAN_CHECK_READY(status)
        frames == SendAllFrames(txHolder, mem, failAt)
        ping   == uCAN_Runtime_SendPing(node, tick, pingOk)
    IN
    /\ UNCHANGED << hcan, filter, txHolder, rxHolder, status, config, mem,
                    tick, advances, ycan, started, startFail, answered >>
    /\ IF gate # READY
       THEN /\ last' = Called("uCAN_SendAll", gate, << >>)
            /\ UNCHANGED node
       ELSE IF failAt # 0
       THEN /\ last' = Called("uCAN_SendAll", UCAN_ERROR, frames)
            /\ UNCHANGED node
       ELSE /\ node' = ping.node
            /\ last' = Called("uCAN_SendAll", UCAN_OK, frames \o ping.bus)

\* an update that records the length of the received frame in the packet
\* it found (a faulty variant, to show that the properties notice a write to
\* the rx holder)
uCAN_Update_StoresDlc(rxOk, StdId, aData, pongOk) ==
    LET gate == UCAN_CHECK_READY(status)
        rx   == [call |-> "HAL_CAN_GetRxMessage", id |-> StdId, dlc |-> Len(aData),
                 data |-> aData, ok |-> rxOk]
    IN
    /\ UNCHANGED << hcan, filter, txHolder, status, config,
                    tick, advances, ycan, started, startFail >>
    /\ IF gate # READY
       THEN /\ last' = Called("uCAN_Update", gate, << >>)
            /\ UNCHANGED << node, mem, answered, rxHolder >>
       ELSE IF ~rxOk
       THEN /\ last' = Called("uCAN_Update", UCAN_ERROR, << rx >>)
            /\ UNCHANGED << node, mem, answered, rxHolder >>
       ELSE \E found \in Bsearch([i \in 1..rxHolder.count |-> rxHolder.packets[i].id], StdId) :
               LET packetStatus == uCAN_Runtime_UpdatePacket(rxHolder, found, aData, mem)
               IN  IF packetStatus.ret = UCAN_ERROR_UNKNOWN_ID
                   THEN \E client \in (IF node.role = UCAN_ROLE_MASTER
                                       THEN Bsearch([i \in 1..node.clientCount |-> node.clients[i].id], StdId)
                                       ELSE {0}) :
                           LET hs == uCAN_Runtime_UpdateHandshake(node, client, StdId, aData, tick, pongOk)
                           IN  /\ node' = hs.node
                               /\ mem' = mem
                               /\ rxHolder' = rxHolder
                               /\ last' = Called("uCAN_Update", hs.ret, << rx >> \o hs.bus)
                               /\ answered' = IF /\ node.role = UCAN_ROLE_MASTER
                                                 /\ client # 0
                                                 /\ hs.ret = UCAN_OK
                                              THEN answered \cup { client }
                                              ELSE answered
                   ELSE /\ mem' = packetStatus.mem
                        /\ node' = node
                        /\ last' = Called("uCAN_Update", packetStatus.ret, << rx >>)
                        /\ rxHolder' = [rxHolder EXCEPT !.packets[found].dlc = rx.dlc]
                        /\ UNCHANGED answered

uCAN_Update(rxOk, StdId, aData, pongOk) ==
    LET gate == UCAN_CHECK_READY(status)
        rx   == [call |-> "HAL_CAN_GetRxMessage", id |-> StdId, dlc |-> Len(aData),
                 data |-> aData, ok |-> rxOk]
    IN
    /\ UNCHANGED << hcan, filter, txHolder, rxHolder, status, config,
                    tick, advances, ycan, started, startFail >>
    /\ IF gate # READY
       THEN /\ last' = Called("uCAN_Update", gate, << >>)
            /\ UNCHANGED << node, mem, answered >>
       ELSE IF ~rxOk
       THEN /\ last' = Called("uCAN_Update", UCAN_ERROR, << rx >>)
            /\ UNCHANGED << node, mem, answered >>
       ELSE \E found \in Bsearch([i \in 1..rxHolder.count |-> rxHolder.packets[i].id], StdId) :
               LET packetStatus == uCAN_Runtime_UpdatePacket(rxHolder, found, aData, mem)
               IN  IF packetStatus.ret = UCAN_ERROR_UNKNOWN_ID
                   THEN \E client \in (IF node.role = UCAN_ROLE_MASTER
                                       THEN Bsearch([i \in 1..node.clientCount |-> node.clients[i].id], StdId)
                                       ELSE {0}) :
                           LET hs == uCAN_Runtime_UpdateHandshake(node, client, StdId, aData, tick, pongOk)
                           IN  /\ node' = hs.node
                               /\ mem' = mem
                               /\ last' = Called("uCAN_Update", hs.ret, << rx >> \o hs.bus)
                               /\ answered' = IF /\ node.role = UCAN_ROLE_MASTER
                                                 /\ client # 0
                                                 /\ hs.ret = UCAN_OK
                                              THEN answered \cup { client }
                                              ELSE answered
                   ELSE /\ mem' = packetStatus.mem
                        /\ node' = node
                        /\ last' = Called("uCAN_Update", packetStatus.ret, << rx >>)
                        /\ UNCHANGED answered

\* a handshake that stores its result in the status of the handle (a
\* faulty variant, to show that the properties notice a latched result)
uCAN_Handshake_Latching ==
    LET gate == UCAN_CHECK_READY(status)
        loop == HandshakeLoop(node, 1, UCAN_OK, node.clients)
    IN
    /\ UNCHANGED << hcan, filter, txHolder, rxHolder, config, mem,
                    tick, advances, ycan, started, startFail >>
    /\ IF gate # READY
       THEN /\ last' = Called("uCAN_Handshake", gate, << >>)
            /\ UNCHANGED << node, status, answered >>
       ELSE /\ node' = [node EXCEPT !.clients = loop.clients]
            /\ status' = loop.flag
            /\ answered' = {}
            /\ last' = Called("uCAN_Handshake", loop.flag, << >>)

uCAN_Handshake ==
    LET gate == UCAN_CHECK_READY(status)
        loop == HandshakeLoop(node, 1, UCAN_OK, node.clients)
    IN
    /\ UNCHANGED << hcan, filter, txHolder, rxHolder, status, config, mem,
                    tick, advances, ycan, started, startFail >>
    /\ IF gate # READY
       THEN /\ last' = Called("uCAN_Handshake", gate, << >>)
            /\ UNCHANGED << node, answered >>
       ELSE /\ node' = [node EXCEPT !.clients = loop.clients]
            /\ answered' = {}
            /\ last' = Called("uCAN_Handshake", loop.flag, << >>)

\* The classification of one client by the loop body of uCAN_Handshake when
\* the receive interrupt stores a new responseTick during it.  The body reads
\* clients[i].responseTick up to seven times: (1) the zero check; the two
\* expansions of UCAN_HANDSHAKE_TICK_DIFF in UCAN_HANDSHAKE_IS_TIMEOUT, each
\* with a read in the comparison (2, 4) and a read in the subtraction (3, 5);
\* the expansion in UCAN_HANDSHAKE_IS_LOST (6, 7).  The field is not
\* volatile and nothing masks the interrupt, so a read numbered below `at`
\* returns the old value and every later read the new one; at = 1 is an
\* interrupt before the body and at = 8 one after it (these two also cover a
\* build that keeps the field in a register).
HandshakeBody_Preempted(sentTick, old, new, at) ==
    LET read(k) == IF k < at THEN old ELSE new
        diff(kc, ks) ==
            IF U32Leq(sentTick, read(kc))
            THEN U32Sub(read(ks), sentTick)
            ELSE U32Add(U32Add(U32Sub(UINT32_MAX, read(ks)), sentTick), U32(1))
    IN  IF read(1) = U32(0)
        THEN [assigned |-> FALSE, status |-> UCAN_CONN_ACTIVE, flag |-> UCAN_ERROR]
        ELSE IF /\ U32Lt(U32(UCAN_HANDSHAKE_TIMEOUT_MS), diff(2, 3))
                /\ U32Lt(diff(4, 5), U32(UCAN_HANDSHAKE_LOST_MS))
        THEN [assigned |-> TRUE, status |-> UCAN_CONN_TIMEOUT, flag |-> UCAN_ERROR]
        ELSE IF U32Leq(U32(UCAN_HANDSHAKE_LOST_MS), diff(6, 7))
        THEN [assigned |-> TRUE, status |-> UCAN_CONN_LOST, flag |-> UCAN_ERROR]
        ELSE [assigned |-> TRUE, status |-> UCAN_CONN_ACTIVE, flag |-> UCAN_OK]

\* uCAN_Handshake in the main loop, preempted once by the receive interrupt:
\* there uCAN_Update takes a valid response of client c, whose identifier
\* misses the rx table, and stores the tick in its responseTick
\* (uCAN_Runtime_UpdateHandshake).  The other clients are classified by the
\* loop as ever.
uCAN_Handshake_Preempted(c, at) ==
    LET loop == HandshakeLoop(node, 1, UCAN_OK, node.clients)
        body == HandshakeBody_Preempted(node.sentTick, node.clients[c].responseTick,
                                        tick, at)
        rx   == [call |-> "HAL_CAN_GetRxMessage", id |-> node.clients[c].id, dlc |-> 1,
                 data |-> << UCAN_HANDSHAKE_RESPONSE_VALUE >>, ok |-> TRUE]
        \* connectionErrorFlag: set by this client or by any other
        failed == \/ body.flag = UCAN_ERROR
                  \/ \E i \in (1..node.clientCount) \ { c } :
                        \/ node.clients[i].responseTick = U32(0)
                        \/ UCAN_HANDSHAKE_IS_TIMEOUT(node.sentTick, node.clients[i].responseTick)
                        \/ UCAN_HANDSHAKE_IS_LOST(node.sentTick, node.clients[i].responseTick)
    IN
    /\ UCAN_CHECK_READY(status) = READY
    /\ node.role = UCAN_ROLE_MASTER
    /\ node.clients # NULL
    /\ c \in 1..node.clientCount
    /\ c \in Bsearch([i \in 1..node.clientCount |-> node.clients[i].id], node.clients[c].id)
    /\ 0 \in Bsearch([i \in 1..rxHolder.count |-> rxHolder.packets[i].id], node.clients[c].id)
    /\ node' = [node EXCEPT
                  !.clients = [i \in 1..node.clientCount |->
                                 IF i # c
                                 THEN loop.clients[i]
                                 ELSE [id           |-> node.clients[c].id,
                                       responseTick |-> tick,
                                       status       |-> IF body.assigned
                                                        THEN body.status
                                                        ELSE node.clients[c].status]]]
    /\ answered' = { c }
    /\ last' = [op  |-> "uCAN_Handshake preempted by uCAN_Update",
                ret |-> IF failed THEN UCAN_ERROR ELSE UCAN_OK,
                bus |-> << rx >>, arg |-> c, at |-> at, assigned |-> body.assigned]
    /\ UNCHANGED << hcan, filter, txHolder, rxHolder, status, config, mem,
                    tick, advances, ycan, started, startFail >>

\* the SysTick interrupt advancing HAL_GetTick() by d
AdvanceTick(d) ==
    /\ advances < MaxAdvances
    /\ tick' = U32Add(tick, U32(d))
    /\ advances' = advances + 1
    /\ UNCHANGED << hcan, filter, node, txHolder, rxHolder, status, config, mem,
                    ycan, last, started, startFail, answered >>

(***************************************************************************)
(* The yCAN prototype (ycan.c): yCAN_Init over the same packet tables.     *)
(***************************************************************************)
\* a byte pointer of freshly malloc'ed memory: indeterminate
UninitSlot == [ptr |-> -1, off |-> 0]

\* the packets array yCAN_Finalize_Packet returns (NULL when malloc fails)
yCAN_Finalize_Packet(init_pkt, count, mallocOk) ==
    IF ~mallocOk
    THEN NULL
    ELSE [i \in 1..count |->
            [id   |-> init_pkt[i].id,
             dlc  |-> Calculate_DLC(init_pkt[1]),
             bits |-> FillBits(init_pkt[i], 1, 0,
                               [k \in 1..UCAN_ITEM_CAPACITY |-> UninitSlot])]]

yCAN_Init(txMallocOk, rxMallocOk) ==
    LET txListCheck == yCAN_Check_Init_Values(config.txPacketList, txHolder.count)
        rxListCheck == yCAN_Check_Init_Values(config.rxPacketList, rxHolder.count)
    IN
    /\ UNCHANGED << hcan, filter, node, txHolder, rxHolder, status, config, mem,
                    tick, advances, started, startFail, answered >>
    /\ IF txListCheck # YCAN_OK
       THEN /\ last' = Called("yCAN_Init", txListCheck, << >>)
            /\ UNCHANGED ycan
       ELSE IF rxListCheck # YCAN_OK
       THEN /\ last' = Called("yCAN_Init", rxListCheck, << >>)
            /\ UNCHANGED ycan
       ELSE /\ ycan' = [isInitOk |-> YCAN_OK,
                        txMessage |-> [count   |-> txHolder.count,
                                       packets |-> yCAN_Finalize_Packet(config.txPacketList,
                                                       txHolder.count, txMallocOk)],
                        rxMessage |-> [count   |-> rxHolder.count,
                                       packets |-> yCAN_Finalize_Packet(config.rxPacketList,
                                                       rxHolder.count, rxMallocOk)]]
            /\ last' = Called("yCAN_Init", YCAN_OK, << >>)

(***************************************************************************)
(* Direct calls of the internal validation functions on the application's  *)
(* tx packet list.                                                         *)
(***************************************************************************)
\* uCAN_Runtime_SendPing(ucan.hcan, &ucan.node) called by the application
Call_SendPing(ok) ==
    LET ping == uCAN_Runtime_SendPing(node, tick, ok)
    IN
    /\ UNCHANGED << hcan, filter, txHolder, rxHolder, status, config, mem,
                    tick, advances, ycan, started, startFail, answered >>
    /\ IF hcan = NullHandle
       THEN /\ last' = Called("uCAN_Runtime_SendPing", UCAN_INVALID_PARAM, << >>)
            /\ UNCHANGED node
       ELSE /\ node' = ping.node
            /\ last' = Called("uCAN_Runtime_SendPing", ping.ret, ping.bus)

\* the SysTick interrupt advancing HAL_GetTick() by d, up to MaxTicks times
SysTick(d) ==
    /\ advances < MaxTicks
    /\ tick' = U32Add(tick, U32(d))
    /\ advances' = advances + 1
    /\ UNCHANGED << hcan, filter, node, txHolder, rxHolder, status, config, mem,
                    ycan, last, started, startFail, answered >>

\* UCAN_HANDSHAKE_TICK_DIFF used on sentTick and the responseTick of client c
Call_TickDiff(c) ==
    /\ node.clients # NULL
    /\ c \in 1..node.clientCount
    /\ last' = [op  |-> "UCAN_HANDSHAKE_TICK_DIFF", ret |-> NONE, bus |-> << >>,
                arg |-> c,
                diff |-> UCAN_HANDSHAKE_TICK_DIFF(node.sentTick, node.clients[c].responseTick)]
    /\ UNCHANGED << hcan, filter, node, txHolder, rxHolder, status, config, mem,
                    tick, advances, ycan, started, startFail, answered >>

Call_Calculate_DLC(i) ==
    /\ config.txPacketList # NULL
    /\ i \in 1..Len(config.txPacketList)
    /\ last' = [op  |-> "uCAN_Debug_Calculate_DLC", ret |-> NONE, bus |-> << >>,
                arg |-> i, dlc |-> uCAN_Debug_Calculate_DLC(config.txPacketList[i])]
    /\ UNCHANGED << hcan, filter, node, txHolder, rxHolder, status, config, mem,
                    tick, advances, ycan, started, startFail, answered >>

Call_CheckPacketConfig ==
    /\ last' = Called("uCAN_Debug_CheckPacketConfig",
                      uCAN_Debug_CheckPacketConfig(config.txPacketList, txHolder), << >>)
    /\ UNCHANGED << hcan, filter, node, txHolder, rxHolder, status, config, mem,
                    tick, advances, ycan, started, startFail, answered >>

(***************************************************************************)
(* The application's setup: the state before the first call.  The handle   *)
(* and the packet arrays are objects of static storage (zeroed), with the  *)
(* fields the application assigns.                                         *)
(***************************************************************************)
Item(ptr, type) == [ptr |-> ptr, type |-> type]

PacketConfig(id, items) == [id |-> id, item_count |-> Len(items), items |-> items]

ZeroHolder(count) == [count |-> count, packets |-> [i \in 1..count |-> ZeroPacket]]

Client(id) == [id |-> id, responseTick |-> U32(0), status |-> UCAN_CONN_ACTIVE]

Node(role, selfId, masterId, clients) ==
    [role |-> role, selfId |-> selfId, masterId |-> masterId, clients |-> clients,
     clientCount |-> IF clients = NULL THEN 0 ELSE Len(clients), sentTick |-> U32(0)]

UserFilter(activation) == [FilterActivation |-> activation, origin |-> "user"]

\* the count the application stores for a packet list (UCAN_PACKET_COUNT of
\* the packets array it pairs with the list); a null list comes with one packet
ListCount(list) == IF list = NULL THEN 1 ELSE Len(list)

Setup(hc, flt, nd, txList, rxList, m, t0) ==
    /\ hcan = hc
    /\ filter = flt
    /\ node = nd
    /\ txHolder = ZeroHolder(ListCount(txList))
    /\ rxHolder = ZeroHolder(ListCount(rxList))
    /\ status = UCAN_NOT_INITIALIZED
    /\ config = [txPacketList |-> txList, rxPacketList |-> rxList]
    /\ mem = m
    /\ tick = t0
    /\ advances = 0
    /\ ycan = [isInitOk |-> YCAN_NOT_INITIALIZED,
               txMessage |-> [count |-> 0, packets |-> NULL],
               rxMessage |-> [count |-> 0, packets |-> NULL]]
    /\ last = Called(NONE, NONE, << >>)
    /\ started = FALSE
    /\ startFail = NONE
    /\ answered = {}

(***************************************************************************)
(* Specification Spec: the lifecycle and the steady state of one node.     *)
(* Application variables: 1 a uint8_t, 2 a uint16_t, 3 a uint32_t.         *)
(***************************************************************************)
Mem0 == << << 17 >>, << 34, 51 >>, << 68, 85, 102, 119 >> >>

TxGood == << PacketConfig(3, << Item(2, UCAN_U16), Item(1, UCAN_U8) >>),
             PacketConfig(1, << Item(1, UCAN_U8) >>) >>
RxGood == << PacketConfig(2, << Item(3, UCAN_U32) >>) >>
RxDup  == << PacketConfig(3, << Item(3, UCAN_U32) >>) >>
TxLong == << PacketConfig(1, << Item(3, UCAN_U32), Item(3, UCAN_U32), Item(1, UCAN_U8) >>) >>

MasterId == 16

\* rx packets under the identifiers of a client and of the master
RxPeer == << PacketConfig(32, << Item(1, UCAN_U8) >>),
             PacketConfig(MasterId, << Item(2, UCAN_U16) >>) >>

\* <<txPacketList, rxPacketList>> the application may have written
AppConfigs ==
    { << TxGood, RxGood >>,     \* a valid configuration, tx declared out of order
      << TxGood, RxDup >>,      \* identifier 3 in both lists
      << NULL, RxGood >>,       \* no tx list
      << TxGood, << >> >>,      \* an empty rx list
      << TxLong, RxGood >> }    \* a tx packet of 9 bytes

\* <<hcan, filter activation, node>> the application may have written
AppHandles ==
    { << Hcan1, CAN_FILTER_ENABLE,
         Node(UCAN_ROLE_MASTER, MasterId, MasterId, << Client(32) >>) >>,
      << Hcan1, CAN_FILTER_DISABLE, Node(UCAN_ROLE_CLIENT, 32, MasterId, << >>) >>,
      << Hcan1, CAN_FILTER_ENABLE, Node(UCAN_ROLE_NONE, 64, MasterId, << >>) >>,
      << NullHandle, CAN_FILTER_DISABLE,
         Node(UCAN_ROLE_MASTER, MasterId, MasterId, << Client(32) >>) >>,
      << Hcan1, CAN_FILTER_ENABLE, Node(UCAN_ROLE_MASTER, MasterId, MasterId, NULL) >> }

\* received frames: identifiers (an rx packet, the master, a client, a
\* stranger) and payloads (a pong, a ping)
RxIds == { 2, MasterId, 32, 99 }

Payloads == { << UCAN_HANDSHAKE_RESPONSE_VALUE, 1, 2, 3, 4, 5, 6, 7 >>,
              << UCAN_HANDSHAKE_REQUEST_VALUE, 8, 9, 10, 11, 12, 13, 14 >> }

TickSteps == { 600 }

Init ==
    \E h \in AppHandles, cfg \in AppConfigs :
        Setup(h[1], UserFilter(h[2]), h[3], cfg[1], cfg[2], Mem0, U32(0))

Next ==
    \/ uCAN_Init
    \/ \E filterOk \in BOOLEAN, startOk \in BOOLEAN, notifOk \in BOOLEAN :
          uCAN_Start(filterOk, startOk, notifOk)
    \/ \E failAt \in 0..txHolder.count, pingOk \in BOOLEAN :
          uCAN_SendAll(failAt, pingOk)
    \/ \E rxOk \in BOOLEAN, StdId \in RxIds, aData \in Payloads, pongOk \in BOOLEAN :
          uCAN_Update(rxOk, StdId, aData, pongOk)
    \/ uCAN_Handshake
    \/ \E d \in TickSteps : AdvanceTick(d)

Spec == Init /\ [][Next]_vars

(***************************************************************************)
(* Specification SpecHs: the handshake on a node with two clients, every   *)
(* HAL call of the start succeeding.                                       *)
(***************************************************************************)
\* <<role, selfId, clients>> of the node
HsNodes ==
    { << UCAN_ROLE_MASTER, MasterId, << Client(32), Client(48) >> >>,
      << UCAN_ROLE_NONE, 64, << Client(32), Client(48) >> >>,
      << UCAN_ROLE_CLIENT, 32, << >> >> }

HsConfigs == { << TxGood, RxGood >> }

HsIds == { 2, MasterId, 32, 48, 99 }

InitHs ==
    \E n \in HsNodes, cfg \in HsConfigs :
        Setup(Hcan1, UserFilter(CAN_FILTER_ENABLE), Node(n[1], n[2], MasterId, n[3]),
              cfg[1], cfg[2], Mem0, U32(0))

NextHs ==
    \/ uCAN_Init
    \/ uCAN_Start(TRUE, TRUE, TRUE)
    \/ \E pingOk \in BOOLEAN : uCAN_SendAll(0, pingOk)
    \/ \E StdId \in HsIds, aData \in Payloads, pongOk \in BOOLEAN :
          uCAN_Update(TRUE, StdId, aData, pongOk)
    \/ uCAN_Handshake
    \/ \E d \in TickSteps : AdvanceTick(d)

SpecHs == InitHs /\ [][NextHs]_vars

(***************************************************************************)
(* Specification SpecPeer: the same nodes with an rx table that holds the  *)
(* identifiers of the master and of the first client, receiving frames     *)
(* while the tick advances.                                                *)
(***************************************************************************)
InitPeer ==
    \E n \in HsNodes :
        Setup(Hcan1, UserFilter(CAN_FILTER_ENABLE), Node(n[1], n[2], MasterId, n[3]),
              TxGood, RxPeer, Mem0, U32(0))

NextPeer ==
    \/ uCAN_Init
    \/ uCAN_Start(TRUE, TRUE, TRUE)
    \/ \E StdId \in HsIds, aData \in Payloads, pongOk \in BOOLEAN :
          uCAN_Update(TRUE, StdId, aData, pongOk)
    \/ \E d \in TickSteps : AdvanceTick(d)

SpecPeer == InitPeer /\ [][NextPeer]_vars

(***************************************************************************)
(* Specification SpecOrder: a master whose application lists the same two  *)
(* clients in either order.  uCAN_Init and uCAN_Start leave the list as it *)
(* was given: uCAN_Debug_FinalizeNodeInfo, which would sort it, has no     *)
(* caller.                                                                 *)
(***************************************************************************)
InitOrder ==
    \E listed \in { << Client(32), Client(48) >>, << Client(48), Client(32) >> } :
        Setup(Hcan1, UserFilter(CAN_FILTER_ENABLE),
              Node(UCAN_ROLE_MASTER, MasterId, MasterId, listed),
              TxGood, RxGood, Mem0, U32(0))

SpecOrder == InitOrder /\ [][NextHs]_vars

(***************************************************************************)
(* Specification SpecIrq: a master with two clients whose main loop calls  *)
(* uCAN_Handshake while the receive interrupt delivers the response of a   *)
(* client.  The tick, sentTick and the responseTick of the first client    *)
(* are those of a node that has been running: neither lies after the      *)
(* tick.                                                                   *)
(***************************************************************************)
IrqTicks == { << 1300, 1200, 0 >>, << 1300, 1200, 600 >>, << 1300, 1200, 1250 >>,
              << 4000, 3000, 500 >>, << 4000, 3000, 3100 >>, << 4000, 1000, 1500 >>,
              << 4000, 3500, 2500 >> }

InitIrq ==
    \E t \in IrqTicks, st \in { UCAN_CONN_ACTIVE, UCAN_CONN_WAITING } :
        Setup(Hcan1, UserFilter(CAN_FILTER_ENABLE),
              [Node(UCAN_ROLE_MASTER, MasterId, MasterId,
                    << [Client(32) EXCEPT !.responseTick = U32(t[3]), !.status = st],
                       [Client(48) EXCEPT !.responseTick = U32(t[2]), !.status = st] >>)
                  EXCEPT !.sentTick = U32(t[2])],
              TxGood, RxGood, Mem0, U32(t[1]))

NextIrq ==
    \/ uCAN_Init
    \/ uCAN_Start(TRUE, TRUE, TRUE)
    \/ uCAN_Handshake
    \/ \E c \in 1..2, at \in 1..8 : uCAN_Handshake_Preempted(c, at)

SpecIrq == InitIrq /\ [][NextIrq]_vars

(***************************************************************************)
(* Specification SpecDlc: validation and finalization of one tx packet     *)
(* over every sequence of item types.                                      *)
(***************************************************************************)
ItemKinds == { UCAN_U8, UCAN_U16, UCAN_U32 }

\* what the type field of an entry read past the end of items[] may hold
StrayKinds == ItemKinds \cup { BAD_TYPE }

\* the type sequences of n items; item j is bound to application variable j
\* (an item_count above the capacity is tried on an items[] of uint8_t fields)
KindSeqs(n) ==
    IF n <= UCAN_ITEM_CAPACITY
    THEN [1..n -> ItemKinds]
    ELSE { [j \in 1..n |-> IF j <= UCAN_ITEM_CAPACITY THEN UCAN_U8
                                                      ELSE b[j - UCAN_ITEM_CAPACITY]] :
             b \in [1..(n - UCAN_ITEM_CAPACITY) -> StrayKinds] }

DlcPackets(maxCount) ==
    UNION { { [id |-> 1, item_count |-> n, items |-> [j \in 1..n |-> Item(j, kinds[j])]] :
                kinds \in KindSeqs(n) } : n \in 0..maxCount }

DlcGood == PacketConfig(2, << Item(1, UCAN_U8) >>)

\* one packet alone; a short packet before and after a valid one
DlcLists(maxCount) ==
    { << p >> : p \in DlcPackets(maxCount) }
    \cup { << DlcGood, p >> : p \in DlcPackets(2) }
    \cup { << p, DlcGood >> : p \in DlcPackets(2) }

InitDlc ==
    \E txList \in DlcLists(MaxItemCount) :
        Setup(Hcan1, UserFilter(CAN_FILTER_ENABLE), Node(UCAN_ROLE_NONE, 64, MasterId, << >>),
              txList, << PacketConfig(3, << Item(1, UCAN_U8) >>) >>, Mem0, U32(0))

NextDlc ==
    \/ uCAN_Init
    \/ uCAN_Start(TRUE, TRUE, TRUE)
    \/ \E i \in 1..2 : Call_Calculate_DLC(i)
    \/ Call_CheckPacketConfig

SpecDlc == InitDlc /\ [][NextDlc]_vars

(***************************************************************************)
(* Specification SpecCfg: uCAN_Start over every pair of packet lists with  *)
(* identifiers 1..MaxId, and over lists around the protocol maximum.       *)
(***************************************************************************)
PacketOf(id) ==
    PacketConfig(id, IF id % 2 = 1 THEN << Item(1, UCAN_U8) >> ELSE << Item(2, UCAN_U16) >>)

IdLists == UNION { [1..n -> 1..MaxId] : n \in 0..MaxPackets }

SmallLists == { [i \in 1..Len(ids) |-> PacketOf(ids[i])] : ids \in IdLists } \cup { NULL }

\* n packets with distinct identifiers above base, declared in descending order
BigList(n, base) == [i \in 1..n |-> PacketOf(base + n + 1 - i)]

\* the lists of at most one packet
ShortLists == { l \in SmallLists : l = NULL \/ Len(l) <= 1 }

\* a list of any length with a short one, either way, and the long lists
CfgPairs ==
    (SmallLists \X ShortLists) \cup (ShortLists \X SmallLists)
    \cup { << BigList(YCAN_MAX_PACKET_COUNT, MaxId), << PacketOf(1) >> >>,
           << BigList(YCAN_MAX_PACKET_COUNT + 1, MaxId), << PacketOf(1) >> >>,
           << << PacketOf(1) >>, BigList(YCAN_MAX_PACKET_COUNT + 1, MaxId) >> }

InitCfg ==
    \E pair \in CfgPairs :
        Setup(Hcan1, UserFilter(CAN_FILTER_ENABLE),
              Node(UCAN_ROLE_MASTER, MasterId, MasterId, << Client(32) >>),
              pair[1], pair[2], Mem0, U32(0))

NextCfg ==
    \/ uCAN_Init
    \/ \E filterOk \in BOOLEAN, startOk \in BOOLEAN, notifOk \in BOOLEAN :
          uCAN_Start(filterOk, startOk, notifOk)
    \/ \E failAt \in { 0, 1 }, pingOk \in BOOLEAN :
          failAt <= txHolder.count /\ uCAN_SendAll(failAt, pingOk)
    \/ \E txMallocOk \in BOOLEAN, rxMallocOk \in BOOLEAN : yCAN_Init(txMallocOk, rxMallocOk)

SpecCfg == InitCfg /\ [][NextCfg]_vars

(***************************************************************************)
(* Specification SpecRx: reception over every rx list of distinct          *)
(* identifiers 1..MaxId, in every order of declaration.  The rx packet of  *)
(* identifier i is one uint8_t item bound to application variable i; the   *)
(* tx packet is bound to variable MaxId + 1.                               *)
(***************************************************************************)
RxPacketOf(id) == PacketConfig(id, << Item(id, UCAN_U8) >>)

RxLists ==
    { [i \in 1..Len(ids) |-> RxPacketOf(ids[i])] :
        ids \in { l \in UNION { [1..n -> 1..MaxId] : n \in 1..MaxId } :
                    \A i \in 1..Len(l), j \in 1..Len(l) : l[i] = l[j] => i = j } }

\* identifiers of received frames: every rx identifier, one below, one above
RxProbes == 0..(MaxId + 1)

InitRx ==
    \E rxList \in RxLists :
        Setup(Hcan1, UserFilter(CAN_FILTER_ENABLE),
              Node(UCAN_ROLE_MASTER, MasterId, MasterId, << Client(32) >>),
              << PacketConfig(64, << Item(MaxId + 1, UCAN_U8) >>) >>, rxList,
              [p \in 1..(MaxId + 1) |-> << 0 >>], U32(0))

NextRx ==
    \/ uCAN_Init
    \/ uCAN_Start(TRUE, TRUE, TRUE)
    \/ \E StdId \in RxProbes, aData \in Payloads : uCAN_Update(TRUE, StdId, aData, TRUE)

SpecRx == InitRx /\ [][NextRx]_vars

(***************************************************************************)
(* Specification SpecTick: the tick arithmetic of the handshake on a       *)
(* master with two clients, over values of sentTick and of the two         *)
(* responseTick fields that lie on both sides of each threshold and of the *)
(* wrap of the 32-bit counter.                                             *)
(***************************************************************************)
\* values HAL_GetTick() had when a ping was sent or a response stored
TickValues ==
    { U32(0), U32(5), U32(100), U32(800), U32(900), U32(2100), U32(2200),
      U32Sub(U32(0), U32(6)) }

InitTick ==
    \E sent \in TickValues, seen1 \in TickValues,
       seen2 \in { U32(0), U32(900), U32(2100) },
       st \in { UCAN_CONN_ACTIVE, UCAN_CONN_WAITING } :
        Setup(Hcan1, UserFilter(CAN_FILTER_ENABLE),
              [Node(UCAN_ROLE_MASTER, MasterId, MasterId,
                    << [Client(32) EXCEPT !.responseTick = seen1, !.status = st],
                       [Client(48) EXCEPT !.responseTick = seen2, !.status = st] >>)
                  EXCEPT !.sentTick = sent],
              TxGood, RxGood, Mem0, U32(0))

NextTick ==
    \/ uCAN_Init
    \/ uCAN_Start(TRUE, TRUE, TRUE)
    \/ uCAN_Handshake
    \/ \E c \in 1..2 : Call_TickDiff(c)

SpecTick == InitTick /\ [][NextTick]_vars

(***************************************************************************)
(* Specification SpecLive: a master with one client whose main loop keeps  *)
(* calling uCAN_SendAll and uCAN_Handshake while the tick advances, from   *)
(* tick zero; the client answers or is silent.  The main loop never stops  *)
(* and SysTick keeps counting, hence the weak fairness of each.            *)
(***************************************************************************)
InitLive ==
    Setup(Hcan1, UserFilter(CAN_FILTER_ENABLE),
          Node(UCAN_ROLE_MASTER, MasterId, MasterId, << Client(32) >>),
          TxGood, RxGood, Mem0, U32(0))

LiveTick == \E d \in { 500, 3000 } : AdvanceTick(d)

LiveSendAll == \E pingOk \in BOOLEAN : uCAN_SendAll(0, pingOk)

NextLive ==
    \/ uCAN_Init
    \/ uCAN_Start(TRUE, TRUE, TRUE)
    \/ LiveSendAll
    \/ \E aData \in Payloads : uCAN_Update(TRUE, 32, aData, TRUE)
    \/ uCAN_Handshake
    \/ LiveTick

SpecLive ==
    /\ InitLive /\ [][NextLive]_vars
    /\ WF_vars(uCAN_Init) /\ WF_vars(uCAN_Start(TRUE, TRUE, TRUE))
    /\ WF_vars(LiveSendAll) /\ WF_vars(uCAN_Handshake) /\ WF_vars(LiveTick)

(***************************************************************************)
(* Specification SpecPing: the ping of the master against the tick, which  *)
(* starts at zero or shortly before the wrap of the 32-bit counter and     *)
(* advances in steps of 100, 200 and 300.                                  *)
(***************************************************************************)
PingStarts == { U32(0), U32Sub(U32(0), U32(300)) }

PingSteps == { 100, 200, 300 }

InitPing ==
    \E n \in HsNodes, t0 \in PingStarts :
        Setup(Hcan1, UserFilter(CAN_FILTER_ENABLE), Node(n[1], n[2], MasterId, n[3]),
              TxGood, RxGood, Mem0, t0)

NextPing ==
    \/ uCAN_Init
    \/ uCAN_Start(TRUE, TRUE, TRUE)
    \/ \E pingOk \in BOOLEAN : uCAN_SendAll(0, pingOk)
    \/ \E ok \in BOOLEAN : Call_SendPing(ok)
    \/ \E d \in PingSteps : SysTick(d)

SpecPing == InitPing /\ [][NextPing]_vars

(***************************************************************************)
(* Specification SpecVal: uCAN_Start over pairs of packet lists of which   *)
(* none, one or both fail validation, for different reasons.               *)
(***************************************************************************)
ValTx ==
    { NULL, << >>, TxGood, TxLong,
      << PacketConfig(1, << Item(1, UCAN_U8) >>), PacketConfig(3, << >>) >> }

ValRx ==
    { NULL, << >>, RxGood, RxDup,
      << PacketConfig(2, << Item(3, UCAN_U32), Item(3, UCAN_U32), Item(1, UCAN_U8) >>) >> }

InitVal ==
    \E tx \in ValTx, rx \in ValRx :
        Setup(Hcan1, UserFilter(CAN_FILTER_ENABLE),
              Node(UCAN_ROLE_MASTER, MasterId, MasterId, << Client(32) >>),
              tx, rx, Mem0, U32(0))

NextVal ==
    \/ uCAN_Init
    \/ \E filterOk \in BOOLEAN, startOk \in BOOLEAN, notifOk \in BOOLEAN :
          uCAN_Start(filterOk, startOk, notifOk)
    \/ uCAN_SendAll(0, TRUE)

SpecVal == InitVal /\ [][NextVal]_vars

(***************************************************************************)
(* Specification SpecInit: uCAN_Init over handles with and without a HAL   *)
(* handle, of every role, with no client list, an empty one and one of one *)
(* client, the filter enabled or disabled.                                 *)
(***************************************************************************)
InitHandles ==
    { << h, f, Node(r, 32, MasterId, c) >> :
        h \in { Hcan1, NullHandle },
        f \in { CAN_FILTER_ENABLE, CAN_FILTER_DISABLE },
        r \in { UCAN_ROLE_MASTER, UCAN_ROLE_CLIENT, UCAN_ROLE_NONE },
        c \in { NULL, << >>, << Client(48) >> } }

InitInit ==
    \E h \in InitHandles :
        Setup(h[1], UserFilter(h[2]), h[3], TxGood, RxGood, Mem0, U32(0))

NextInit ==
    \/ uCAN_Init
    \/ uCAN_Start(TRUE, TRUE, TRUE)
    \/ uCAN_SendAll(0, TRUE)
    \/ uCAN_Handshake

SpecInit == InitInit /\ [][NextInit]_vars

(***************************************************************************)
(* Specification SpecTrip: a tx packet sent and its payload received by an *)
(* rx packet of the same item types, over every sequence of item types     *)
(* that fits a frame.  Tx item j is bound to application variable j, rx    *)
(* item j to variable UCAN_ITEM_CAPACITY + j; every variable is given four *)
(* bytes, of which an item uses the first one, two or four.                *)
(***************************************************************************)
TripPackets(id, base) ==
    { [id |-> id, item_count |-> p.item_count,
       items |-> [j \in 1..p.item_count |-> Item(base + j, p.items[j].type)]] :
        p \in { q \in DlcPackets(UCAN_ITEM_CAPACITY) :
                  uCAN_Debug_Calculate_DLC(q) \in 1..8 } }

\* the bytes of the tx variables: two patterns of distinct values
TripValues == { [j \in 1..UCAN_ITEM_CAPACITY |-> [b \in 1..4 |-> 16 * j + b]],
                [j \in 1..UCAN_ITEM_CAPACITY |-> [b \in 1..4 |-> 255 - (16 * j + b)]] }

\* data[8] as HAL_CAN_GetRxMessage leaves it for a frame with this payload
Received(payload) == [i \in 1..8 |-> IF i <= Len(payload) THEN payload[i] ELSE 170]

InitTrip ==
    \E tx \in TripPackets(1, 0), v \in TripValues :
        Setup(Hcan1, UserFilter(CAN_FILTER_ENABLE), Node(UCAN_ROLE_NONE, 64, MasterId, << >>),
              << tx >>,
              << [tx EXCEPT !.id = 2,
                            !.items = [j \in 1..tx.item_count |->
                                          Item(UCAN_ITEM_CAPACITY + j, tx.items[j].type)]] >>,
              [p \in 1..(2 * UCAN_ITEM_CAPACITY) |->
                  IF p <= UCAN_ITEM_CAPACITY THEN v[p] ELSE [b \in 1..4 |-> 0]],
              U32(0))

\* the frame uCAN_SendAll has just sent arrives under the rx identifier
Loopback ==
    /\ last.op = "uCAN_SendAll"
    /\ last.bus # << >>
    /\ uCAN_Update(TRUE, 2, Received(last.bus[1].data), TRUE)

NextTrip ==
    \/ uCAN_Init
    \/ uCAN_Start(TRUE, TRUE, TRUE)
    \/ uCAN_SendAll(0, TRUE)
    \/ Loopback

SpecTrip == InitTrip /\ [][NextTrip]_vars

(***************************************************************************)
(* Properties.  Reference quantities computed from the configuration       *)
(* alone, without the loops of the code.                                   *)
(***************************************************************************)
GatedOps == { "uCAN_Start", "uCAN_SendAll", "uCAN_Update", "uCAN_Handshake" }

\* the bytes of the items 1..n of a packet configuration
WidthSum(cfg, n) ==
    Cardinality({ j \in 1..n : cfg.items[j].type = UCAN_U8 })
    + 2 * Cardinality({ j \in 1..n : cfg.items[j].type = UCAN_U16 })
    + 4 * Cardinality({ j \in 1..n : cfg.items[j].type = UCAN_U32 })

PacketBytes(cfg) == WidthSum(cfg, cfg.item_count)

\* byte k of the frame of cfg: byte (k - 1 - bytes before item j) of the
\* variable of the item j that covers it
PlanSlot(cfg, k) ==
    LET j == CHOOSE j \in 1..cfg.item_count :
                 WidthSum(cfg, j - 1) < k /\ k <= WidthSum(cfg, j)
    IN  [ptr |-> cfg.items[j].ptr, off |-> k - 1 - WidthSum(cfg, j - 1)]

\* what a packet configuration compiles to: identifier, length, byte plan
Compiled(cfg) ==
    [id |-> cfg.id, dlc |-> PacketBytes(cfg),
     plan |-> [k \in 1..PacketBytes(cfg) |-> PlanSlot(cfg, k)]]

\* the same view of a packet of a holder: the byte plan is bits[0 .. dlc-1]
Plan(packet) == [id |-> packet.id, dlc |-> packet.dlc,
                 plan |-> [k \in 1..packet.dlc |-> packet.bits[k]]]

WithinCapacity(list) ==
    \A i \in 1..Len(list) : list[i].item_count <= UCAN_ITEM_CAPACITY

\* a packet list that passes validation by the documented rules
ValidList(list) ==
    /\ list # NULL
    /\ Len(list) > 0
    /\ \A i \in 1..Len(list) :
          /\ list[i].item_count \in 1..UCAN_ITEM_CAPACITY
          /\ PacketBytes(list[i]) \in 1..8

\* the holder has the compiled packets of the list, as a multiset
HolderMatches(holder, list) ==
    /\ holder.count = Len(list)
    /\ \A x \in { Compiled(list[i]) : i \in 1..Len(list) }
              \cup { Plan(holder.packets[k]) : k \in 1..holder.count } :
          Cardinality({ i \in 1..Len(list) : Compiled(list[i]) = x })
          = Cardinality({ k \in 1..holder.count : Plan(holder.packets[k]) = x })

HolderIds(holder) == [i \in 1..holder.count |-> holder.packets[i].id]

\* some value occurs at two positions of the sequence
HasRepeat(ids) == \E i \in 1..Len(ids), j \in 1..Len(ids) : i < j /\ ids[i] = ids[j]

StrictlyIncreasing(ids) == \A i \in 1..(Len(ids) - 1) : ids[i] < ids[i + 1]

\* the application variables after the bytes data[1..] have been stored
\* through the byte plan of cfg
Stored(m, cfg, data) ==
    [p \in DOMAIN m |->
        [b \in DOMAIN m[p] |->
            IF \E k \in 1..PacketBytes(cfg) : PlanSlot(cfg, k) = [ptr |-> p, off |-> b - 1]
            THEN data[CHOOSE k \in 1..PacketBytes(cfg) :
                          PlanSlot(cfg, k) = [ptr |-> p, off |-> b - 1]]
            ELSE m[p][b]]]

\* the positions of the list that carry the identifier
Carriers(list, id) == { i \in 1..Len(list) : list[i].id = id }

\* C1: once uCAN_Start has returned a non-OK status, the handle status is
\* that status, and every following uCAN_Start, uCAN_SendAll, uCAN_Update
\* and uCAN_Handshake returns it, makes no HAL call and leaves the bound
\* variables and the handshake state as they were.
C1_FailedStartLatches ==
    [][ (startFail # NONE /\ tick' = tick /\ last'.op \in GatedOps)
            => /\ status = startFail
               /\ last'.ret = startFail
               /\ last'.bus = << >>
               /\ mem' = mem
               /\ node' = node ]_vars

\* C2: with status UCAN_NOT_INITIALIZED each of uCAN_Start, uCAN_SendAll,
\* uCAN_Update and uCAN_Handshake returns UCAN_NOT_INITIALIZED, makes no
\* HAL call, and changes neither the bound variables, the holders, the
\* tick fields nor the client statuses.
C2_NotInitializedGate ==
    [][ (status = UCAN_NOT_INITIALIZED /\ tick' = tick /\ last'.op \in GatedOps)
            => /\ last'.ret = UCAN_NOT_INITIALIZED
               /\ last'.bus = << >>
               /\ UNCHANGED << status, mem, node, txHolder, rxHolder >> ]_vars

\* a call of uCAN_Update on a handle that uCAN_Init never accepted
C2_Witness ==
    /\ status = UCAN_NOT_INITIALIZED
    /\ last.op = "uCAN_Update"
    /\ last.ret = UCAN_NOT_INITIALIZED

\* C3: until some uCAN_Start has returned UCAN_OK, uCAN_SendAll makes no
\* HAL call (no data frame, no ping) and uCAN_Update writes no bound
\* variable.
C3_NothingBeforeStart ==
    ~started => /\ mem = Mem0
                /\ last.op = "uCAN_SendAll" => last.bus = << >>

\* C4: uCAN_Debug_CheckUniquePackets, run by uCAN_Start on the finalized
\* holders, reports a duplicate exactly when some identifier occurs at two
\* positions of the tx packets followed by the rx packets (two of one list
\* included), and passes exactly when all are distinct.
C4_UniqueIffDistinct ==
    (last.op = "uCAN_Start"
        /\ last.ret \in { UCAN_OK, UCAN_ERROR_DUPLICATE_ID, UCAN_ERROR_FILTER_CONFIG,
                          UCAN_ERROR_CAN_START, UCAN_ERROR_CAN_NOTIFICATION })
    => (last.ret = UCAN_ERROR_DUPLICATE_ID
          <=> HasRepeat(HolderIds(txHolder) \o HolderIds(rxHolder)))

\* an identifier declared twice in the tx list and nowhere in the rx list
C4_Witness ==
    /\ last.op = "uCAN_Start"
    /\ last.ret = UCAN_ERROR_DUPLICATE_ID
    /\ HasRepeat(HolderIds(txHolder))
    /\ ~HasRepeat(HolderIds(rxHolder))
    /\ \A i \in 1..txHolder.count, j \in 1..rxHolder.count :
          txHolder.packets[i].id # rxHolder.packets[j].id

\* C5: uCAN_Start on two valid lists that share an identifier returns
\* UCAN_ERROR_DUPLICATE_ID, leaves the status at it and calls none of
\* HAL_CAN_ConfigFilter, HAL_CAN_Start, HAL_CAN_ActivateNotification; the
\* uCAN_SendAll that follows returns UCAN_ERROR_DUPLICATE_ID and sends
\* nothing.
C5_SharedIdStopsStart ==
    [][ /\ (/\ last'.op = "uCAN_Start"
            /\ status = UCAN_OK
            /\ ValidList(config.txPacketList)
            /\ ValidList(config.rxPacketList)
            /\ \E i \in 1..Len(config.txPacketList), j \in 1..Len(config.rxPacketList) :
                  config.txPacketList[i].id = config.rxPacketList[j].id)
           => /\ last'.ret = UCAN_ERROR_DUPLICATE_ID
              /\ status' = UCAN_ERROR_DUPLICATE_ID
              /\ last'.bus = << >>
        /\ (/\ last.op = "uCAN_Start"
            /\ last.ret = UCAN_ERROR_DUPLICATE_ID
            /\ last'.op = "uCAN_SendAll")
           => /\ last'.ret = UCAN_ERROR_DUPLICATE_ID
              /\ last'.bus = << >> ]_vars

\* uCAN_SendAll refused after a start that found an identifier of the tx
\* list in the rx list
C5_Witness ==
    /\ last.op = "uCAN_SendAll"
    /\ last.ret = UCAN_ERROR_DUPLICATE_ID
    /\ status = UCAN_ERROR_DUPLICATE_ID
    /\ ValidList(config.txPacketList)
    /\ ValidList(config.rxPacketList)
    /\ ~HasRepeat(HolderIds(txHolder))
    /\ ~HasRepeat(HolderIds(rxHolder))
    /\ \E i \in 1..txHolder.count, j \in 1..rxHolder.count :
          txHolder.packets[i].id = rxHolder.packets[j].id

\* C6: for every packet of 1 to 8 items uCAN_Debug_Calculate_DLC returns
\* the sum of the widths of its items (1, 2, 4), whatever their order; and
\* uCAN_Debug_CheckPacketConfig rejects a non-empty list exactly when the
\* sum of some packet is 0 or above 8.
C6_DlcIsWidthSum ==
    /\ (last.op = "uCAN_Debug_Calculate_DLC"
          /\ config.txPacketList[last.arg].item_count \in 1..UCAN_ITEM_CAPACITY)
       => last.dlc = PacketBytes(config.txPacketList[last.arg])
    /\ (last.op = "uCAN_Debug_CheckPacketConfig" /\ WithinCapacity(config.txPacketList))
       => (last.ret # UCAN_OK
             <=> \E i \in 1..Len(config.txPacketList) :
                    PacketBytes(config.txPacketList[i]) \notin 1..8)

\* the length of a packet of four items of all three types
C6_Witness ==
    /\ last.op = "uCAN_Debug_Calculate_DLC"
    /\ last.dlc = 8
    /\ config.txPacketList[last.arg].item_count = 4
    /\ config.txPacketList[last.arg].items[1].type = UCAN_U32
    /\ config.txPacketList[last.arg].items[4].type = UCAN_U16

\* C7: validation fails for an empty list (null, or of count 0) and for a
\* list of more than YCAN_MAX_PACKET_COUNT packets, so that no uCAN_Start
\* with more than that many tx or rx packets returns UCAN_OK.
C7_CountBounded ==
    (last.op = "uCAN_Start"
        /\ \/ config.txPacketList = NULL
           \/ config.rxPacketList = NULL
           \/ txHolder.count = 0
           \/ rxHolder.count = 0
           \/ txHolder.count > YCAN_MAX_PACKET_COUNT
           \/ rxHolder.count > YCAN_MAX_PACKET_COUNT)
    => last.ret # UCAN_OK

\* C8: validation of a non-empty list answers UCAN_INVALID_PARAM when the
\* item count of the packet it stops at is 0 or above the capacity, and
\* UCAN_MISSING_VAL only for a packet of 1 to 8 items whose bytes are 0 or
\* more than 8.
C8_ItemCountChecked ==
    (last.op = "uCAN_Debug_CheckPacketConfig" /\ Len(config.txPacketList) = 1)
    => /\ config.txPacketList[1].item_count \notin 1..UCAN_ITEM_CAPACITY
             => last.ret = UCAN_INVALID_PARAM
       /\ last.ret = UCAN_MISSING_VAL
             => /\ config.txPacketList[1].item_count \in 1..UCAN_ITEM_CAPACITY
                /\ PacketBytes(config.txPacketList[1]) \notin 1..8

\* C9: after uCAN_Debug_FinalizePacket on a validated list, every packet of
\* the configuration is in the holder with its identifier, with the sum of
\* its widths as dlc, between 1 and 8, and with a byte plan of dlc entries:
\* the bytes 0.. of each item's variable, the items in their order.
C9_FinalizedPlan ==
    (last.op = "uCAN_Start" /\ last.ret = UCAN_OK /\ WithinCapacity(config.txPacketList))
    => \A i \in 1..Len(config.txPacketList) :
          \E k \in 1..txHolder.count :
             /\ txHolder.packets[k].id = config.txPacketList[i].id
             /\ txHolder.packets[k].dlc = PacketBytes(config.txPacketList[i])
             /\ txHolder.packets[k].dlc \in 1..8
             /\ Plan(txHolder.packets[k]) = Compiled(config.txPacketList[i])

\* a finalized packet of a uint16_t, a uint32_t and a uint8_t item
C9_Witness ==
    /\ last.op = "uCAN_Start"
    /\ last.ret = UCAN_OK
    /\ \E k \in 1..txHolder.count :
          /\ txHolder.packets[k].dlc = 7
          /\ txHolder.packets[k].bits[2] = [ptr |-> 1, off |-> 1]
          /\ txHolder.packets[k].bits[6] = [ptr |-> 2, off |-> 3]
          /\ txHolder.packets[k].bits[7] = [ptr |-> 3, off |-> 0]

\* C10: after uCAN_Start has returned UCAN_OK the identifiers of each
\* holder increase strictly, each holder has the compiled packets of its
\* list (identifier, dlc, byte plan) as a multiset, whatever the order of
\* declaration, and no identifier is in both holders.
C10_SortedHolders ==
    (last.op = "uCAN_Start" /\ last.ret = UCAN_OK)
    => /\ StrictlyIncreasing(HolderIds(txHolder))
       /\ StrictlyIncreasing(HolderIds(rxHolder))
       /\ HolderMatches(txHolder, config.txPacketList)
       /\ HolderMatches(rxHolder, config.rxPacketList)
       /\ \A i \in 1..txHolder.count, j \in 1..rxHolder.count :
             txHolder.packets[i].id # rxHolder.packets[j].id

\* a start over a tx list declared in descending order of identifier
C10_Witness ==
    /\ last.op = "uCAN_Start"
    /\ last.ret = UCAN_OK
    /\ Len(config.txPacketList) = 2
    /\ config.txPacketList[1].id > config.txPacketList[2].id
    /\ txHolder.packets[1].id = config.txPacketList[2].id

\* C11: on a started node whose rx list has distinct identifiers,
\* uCAN_Update of a frame whose identifier is in the list stores the
\* payload through the packet of that identifier and of no other, and a
\* frame of any other identifier is answered UCAN_ERROR_UNKNOWN_ID with no
\* variable written.
C11_LookupExact ==
    [][ (last'.op = "uCAN_Update" /\ started /\ status = UCAN_OK)
        => LET rx == last'.bus[1]
               at == Carriers(config.rxPacketList, rx.id)
           IN  IF at # {}
               THEN /\ last'.ret = UCAN_OK
                    /\ \A i \in at : mem' = Stored(mem, config.rxPacketList[i], rx.data)
               ELSE /\ last'.ret = UCAN_ERROR_UNKNOWN_ID
                    /\ mem' = mem ]_vars

\* a frame for the packet declared first in a list of three or more that
\* is not declared in ascending order
C11_Witness ==
    /\ last.op = "uCAN_Update"
    /\ last.ret = UCAN_OK
    /\ started
    /\ Len(config.rxPacketList) >= 3
    /\ config.rxPacketList[1].id > config.rxPacketList[2].id
    /\ last.bus[1].id = config.rxPacketList[1].id
    /\ mem[last.bus[1].id] = << last.bus[1].data[1] >>

\* C12: the payload that uCAN_Runtime_SendPacket assembles from a finalized
\* tx packet, given to uCAN_Runtime_UpdatePacket for an rx packet finalized
\* from the same sequence of item types bound to other variables, leaves
\* every rx variable with the bytes of the tx variable of the same item
\* (and the bytes beyond the width of the item as they were).
C12_RoundTrip ==
    (last.op = "uCAN_Update" /\ last.ret = UCAN_OK /\ started)
    => \A j \in 1..config.txPacketList[1].item_count, b \in 1..4 :
          LET tx == config.txPacketList[1].items[j]
              rx == config.rxPacketList[1].items[j]
              width == IF tx.type = UCAN_U8 THEN 1 ELSE IF tx.type = UCAN_U16 THEN 2 ELSE 4
          IN  mem[rx.ptr][b] = IF b <= width THEN mem[tx.ptr][b] ELSE 0

\* a round trip of a uint16_t, a uint32_t and a uint8_t item
C12_Witness ==
    /\ last.op = "uCAN_Update"
    /\ last.ret = UCAN_OK
    /\ started
    /\ config.txPacketList[1].item_count = 3
    /\ config.txPacketList[1].items[1].type = UCAN_U16
    /\ config.txPacketList[1].items[2].type = UCAN_U32
    /\ mem[config.rxPacketList[1].items[2].ptr][4] = mem[config.txPacketList[1].items[2].ptr][4]
    /\ mem[config.rxPacketList[1].items[2].ptr][4] # 0
    /\ mem[config.rxPacketList[1].items[1].ptr][3] = 0

\* C13: uCAN_SendAll is fail-fast.  When the bus send of tx packet k fails,
\* the call returns an error, the frames submitted are exactly those of
\* packets 1..k of the holder in holder order (ascending identifiers once
\* started), each once, all before k sent successfully, none after k, and
\* no ping is attempted: the node, sentTick included, is as it was.
C13_FailFast ==
    [][ (last'.op = "uCAN_SendAll" /\ tick' = tick)
        => \A k \in 1..txHolder.count :
              (k <= Len(last'.bus) /\ ~last'.bus[k].ok)
              => /\ last'.ret # UCAN_OK
                 /\ Len(last'.bus) = k
                 /\ \A i \in 1..k :
                       /\ last'.bus[i].call = "HAL_CAN_AddTxMessage"
                       /\ last'.bus[i].id = txHolder.packets[i].id
                       /\ last'.bus[i].dlc = txHolder.packets[i].dlc
                       /\ i < k => last'.bus[i].ok
                 /\ (started /\ status = UCAN_OK)
                       => \A i \in 1..(k - 1) : last'.bus[i].id < last'.bus[i + 1].id
                 /\ node' = node ]_vars

\* the send of the second of two packets fails after the first was sent
C13_Witness ==
    /\ last.op = "uCAN_SendAll"
    /\ started
    /\ last.ret = UCAN_ERROR
    /\ txHolder.count = 2
    /\ Len(last.bus) = 2
    /\ last.bus[1].ok
    /\ ~last.bus[2].ok
    /\ last.bus[1].id < last.bus[2].id

C15_SendFailuresReported ==
    (last.op \in { "uCAN_SendAll", "uCAN_Update" })
    => \A k \in 1..Len(last.bus) :
          (last.bus[k].call = "HAL_CAN_AddTxMessage" /\ ~last.bus[k].ok)
          => last.ret # UCAN_OK

\* C16: uCAN_SendAll, uCAN_Update and uCAN_Handshake leave the status of
\* the handle as it was, whatever they return.
C16_StatusUntouched ==
    [][ (last'.op \in { "uCAN_SendAll", "uCAN_Update", "uCAN_Handshake" } /\ tick' = tick)
        => status' = status ]_vars

\* a degraded handshake, a failed send and an unknown identifier, each
\* reported while the status stays UCAN_OK
C16_Witness ==
    /\ status = UCAN_OK
    /\ started
    /\ \/ last.op = "uCAN_Handshake" /\ last.ret = UCAN_ERROR
       \/ last.op = "uCAN_SendAll" /\ last.ret = UCAN_ERROR
       \/ last.op = "uCAN_Update" /\ last.ret = UCAN_ERROR_UNKNOWN_ID

\* the rx table holds a packet of this identifier
InRxTable(id) == \E i \in 1..rxHolder.count : rxHolder.packets[i].id = id

\* the positions of this identifier in the client list of the node
PeersOf(nd, id) == { c \in 1..nd.clientCount : nd.clients[c].id = id }

\* a step of uCAN_Update that passed the gate and read a frame
UpdateStep == last'.op = "uCAN_Update" /\ tick' = tick /\ status = UCAN_OK

\* C17: two-tier dispatch.  When the identifier of the received frame is in
\* the rx table, uCAN_Update stores payload bytes 0..dlc-1 through the byte
\* plan of that packet and changes nothing else in memory, returns UCAN_OK
\* and leaves the handshake alone: the node (sentTick, responseTick and
\* status of every client) is unchanged and no pong is sent, also when the
\* identifier is the master identifier or that of a client.
C17_DataBeforeHandshake ==
    [][ (UpdateStep /\ started /\ Carriers(config.rxPacketList, last'.bus[1].id) # {})
        => /\ last'.ret = UCAN_OK
           /\ \A i \in Carriers(config.rxPacketList, last'.bus[1].id) :
                 mem' = Stored(mem, config.rxPacketList[i], last'.bus[1].data)
           /\ node' = node
           /\ last'.bus = << last'.bus[1] >>
           /\ last'.bus[1].call = "HAL_CAN_GetRxMessage" ]_vars

\* a master stores a frame that carries the identifier of its first client
\* and the response value; the client's responseTick stays zero
C17_Witness ==
    /\ last.op = "uCAN_Update"
    /\ last.ret = UCAN_OK
    /\ started
    /\ node.role = UCAN_ROLE_MASTER
    /\ last.bus[1].id = node.clients[1].id
    /\ last.bus[1].data[1] = UCAN_HANDSHAKE_RESPONSE_VALUE
    /\ InRxTable(last.bus[1].id)
    /\ tick # U32(0)
    /\ node.clients[1].responseTick = U32(0)
    /\ mem[1] = << UCAN_HANDSHAKE_RESPONSE_VALUE >>

\* C18 as stated: on a node of any role, Master, Client or None, a frame
\* whose identifier is neither in the rx table nor a recognized handshake
\* identifier makes uCAN_Update return UCAN_ERROR_UNKNOWN_ID and changes no
\* memory and no handshake state.
C18_UnknownAnyRole ==
    [][ (/\ UpdateStep
         /\ ~InRxTable(last'.bus[1].id)
         /\ node.role = UCAN_ROLE_MASTER => PeersOf(node, last'.bus[1].id) = {}
         /\ node.role = UCAN_ROLE_CLIENT => last'.bus[1].id # node.masterId)
        => /\ last'.ret = UCAN_ERROR_UNKNOWN_ID
           /\ mem' = mem
           /\ node' = node ]_vars

\* C18 as amended: on a Master or a Client such a frame makes uCAN_Update
\* return UCAN_ERROR_UNKNOWN_ID; on a node of role None it returns UCAN_OK;
\* on every role no memory and no handshake state changes and nothing is
\* sent.
C18_UnknownByRole ==
    [][ (/\ UpdateStep
         /\ ~InRxTable(last'.bus[1].id)
         /\ node.role = UCAN_ROLE_MASTER => PeersOf(node, last'.bus[1].id) = {}
         /\ node.role = UCAN_ROLE_CLIENT => last'.bus[1].id # node.masterId)
        => /\ last'.ret = IF node.role \in { UCAN_ROLE_MASTER, UCAN_ROLE_CLIENT }
                          THEN UCAN_ERROR_UNKNOWN_ID ELSE UCAN_OK
           /\ mem' = mem
           /\ node' = node
           /\ Len(last'.bus) = 1 ]_vars

\* a started client is given a frame of an identifier that is neither in
\* its rx table nor that of its master
C18_Witness ==
    /\ last.op = "uCAN_Update"
    /\ last.ret = UCAN_ERROR_UNKNOWN_ID
    /\ started
    /\ status = UCAN_OK
    /\ node.role = UCAN_ROLE_CLIENT
    /\ last.bus[1].id # node.masterId
    /\ ~InRxTable(last.bus[1].id)
    /\ last.bus[1].data[1] = UCAN_HANDSHAKE_REQUEST_VALUE

\* C19: on a node of role None the handshake ignores every frame handed to
\* it: whatever the identifier and the payload of a frame that misses the
\* rx table, the result is UCAN_OK, nothing is sent, and sentTick and every
\* field of every client are as they were.
C19_NoneIgnores ==
    [][ (UpdateStep /\ node.role = UCAN_ROLE_NONE /\ ~InRxTable(last'.bus[1].id))
        => /\ last'.ret = UCAN_OK
           /\ \A k \in 1..Len(last'.bus) : last'.bus[k].call # "HAL_CAN_AddTxMessage"
           /\ node'.sentTick = node.sentTick
           /\ node'.clients = node.clients ]_vars

\* a node of role None is given the response value under the identifier of
\* the first entry of its client list, and under the master identifier
C19_Witness ==
    /\ last.op = "uCAN_Update"
    /\ last.ret = UCAN_OK
    /\ started
    /\ node.role = UCAN_ROLE_NONE
    /\ ~InRxTable(last.bus[1].id)
    /\ tick # U32(0)
    /\ \/ /\ last.bus[1].id = node.clients[1].id
          /\ last.bus[1].data[1] = UCAN_HANDSHAKE_RESPONSE_VALUE
          /\ node.clients[1].responseTick = U32(0)
       \/ /\ last.bus[1].id = node.masterId
          /\ last.bus[1].data[1] = UCAN_HANDSHAKE_REQUEST_VALUE
          /\ node.sentTick = U32(0)

\* C20: on a Master, a frame that misses the rx table and carries the
\* identifier of a client sets the responseTick of that client to the
\* current tick if and only if byte 0 of the payload is the response value
\* 0x5A; with any other byte 0 the call returns UCAN_ERROR and no field of
\* any client changes.  Either way the other clients and sentTick are as
\* they were and the master sends nothing.
C20_MasterResponse ==
    [][ (/\ UpdateStep
         /\ node.role = UCAN_ROLE_MASTER
         /\ ~InRxTable(last'.bus[1].id)
         /\ PeersOf(node, last'.bus[1].id) # {})
        => /\ \A c \in PeersOf(node, last'.bus[1].id) :
                 IF last'.bus[1].data[1] = UCAN_HANDSHAKE_RESPONSE_VALUE
                 THEN /\ last'.ret = UCAN_OK
                      /\ node' = [node EXCEPT !.clients[c].responseTick = tick]
                 ELSE /\ last'.ret = UCAN_ERROR
                      /\ node' = node
           /\ \A k \in 1..Len(last'.bus) : last'.bus[k].call # "HAL_CAN_AddTxMessage"
           /\ mem' = mem ]_vars

\* the second client of a master answers after the tick has advanced: its
\* responseTick is the tick, that of the first client is still zero
C20_Witness ==
    /\ last.op = "uCAN_Update"
    /\ last.ret = UCAN_OK
    /\ started
    /\ node.role = UCAN_ROLE_MASTER
    /\ node.clientCount = 2
    /\ last.bus[1].id = node.clients[2].id
    /\ last.bus[1].data[1] = UCAN_HANDSHAKE_RESPONSE_VALUE
    /\ tick # U32(0)
    /\ node.clients[2].responseTick = tick
    /\ node.clients[1].responseTick = U32(0)

\* C21: on a Client, a frame that misses the rx table triggers a pong if
\* and only if its identifier is the configured master identifier and byte
\* 0 of its payload is the request value 0xA5.  Then sentTick becomes the
\* current tick and exactly one frame is submitted: one byte, the response
\* value 0x5A, under the node's own identifier.  A frame of another
\* identifier returns UCAN_ERROR_UNKNOWN_ID and a wrong byte UCAN_ERROR,
\* both without a pong and with the node as it was.
C21_ClientPong ==
    [][ (UpdateStep /\ node.role = UCAN_ROLE_CLIENT /\ ~InRxTable(last'.bus[1].id))
        => LET rx == last'.bus[1]
               sent == { k \in 1..Len(last'.bus) : last'.bus[k].call = "HAL_CAN_AddTxMessage" }
           IN  /\ mem' = mem
               /\ IF rx.id # node.masterId
                  THEN last'.ret = UCAN_ERROR_UNKNOWN_ID /\ sent = {} /\ node' = node
                  ELSE IF rx.data[1] # UCAN_HANDSHAKE_REQUEST_VALUE
                  THEN last'.ret = UCAN_ERROR /\ sent = {} /\ node' = node
                  ELSE /\ node' = [node EXCEPT !.sentTick = tick]
                       /\ sent = { 2 }
                       /\ Len(last'.bus) = 2
                       /\ last'.bus[2].id = node.selfId
                       /\ last'.bus[2].dlc = 1
                       /\ last'.bus[2].data = << UCAN_HANDSHAKE_RESPONSE_VALUE >> ]_vars

\* a started client answers a request of its master after the tick advanced
C21_Witness ==
    /\ last.op = "uCAN_Update"
    /\ started
    /\ node.role = UCAN_ROLE_CLIENT
    /\ last.bus[1].id = node.masterId
    /\ ~InRxTable(last.bus[1].id)
    /\ last.bus[1].data[1] = UCAN_HANDSHAKE_REQUEST_VALUE
    /\ Len(last.bus) = 2
    /\ last.bus[2].id = node.selfId
    /\ last.bus[2].id # node.masterId
    /\ tick # U32(0)
    /\ node.sentTick = tick

\* C24: the tick delta is safe against the wrap of the counter: for all
\* 32-bit sent and seen, UCAN_HANDSHAKE_TICK_DIFF(sent, seen) is the elapsed
\* time (seen - sent) mod 2^32; it is 11 for sent = 4294967290 and seen = 5,
\* 0 for sent = seen = 100, 800 for sent = 100 and seen = 900, and 2100 for
\* sent = 100 and seen = 2200.
C24_TickDiffWrapSafe ==
    (last.op = "UCAN_HANDSHAKE_TICK_DIFF")
    => LET sent == node.sentTick
           seen == node.clients[last.arg].responseTick
       IN  /\ last.diff = U32Sub(seen, sent)
           /\ (sent = U32Sub(U32(0), U32(6)) /\ seen = U32(5)) => last.diff = U32(11)
           /\ (sent = U32(100) /\ seen = U32(100)) => last.diff = U32(0)
           /\ (sent = U32(100) /\ seen = U32(900)) => last.diff = U32(800)
           /\ (sent = U32(100) /\ seen = U32(2200)) => last.diff = U32(2100)

\* the tick delta of sentTick and responseTick as uCAN_Handshake takes it:
\* seen - sent when sent <= seen, and sent - seen otherwise
TickDelta(sent, seen) ==
    IF U32Leq(sent, seen) THEN U32Sub(seen, sent) ELSE U32Sub(sent, seen)

\* the connection status the thresholds give to a tick delta
Verdict(delta) ==
    IF U32Lt(U32(UCAN_HANDSHAKE_TIMEOUT_MS), delta) /\ U32Lt(delta, U32(UCAN_HANDSHAKE_LOST_MS))
    THEN UCAN_CONN_TIMEOUT
    ELSE IF ~U32Lt(delta, U32(UCAN_HANDSHAKE_LOST_MS))
    THEN UCAN_CONN_LOST
    ELSE UCAN_CONN_ACTIVE

\* a step of uCAN_Handshake that passed the gate
HandshakeStep == last'.op = "uCAN_Handshake" /\ tick' = tick /\ status = UCAN_OK

\* C25: for every client with a responseTick other than zero, uCAN_Handshake
\* sets the status to Timeout if and only if 700 < delta < 2000, to Lost if
\* and only if delta >= 2000, and to Active otherwise, delta being the tick
\* delta of sentTick and the responseTick of the client; it never assigns
\* Waiting.
C25_Thresholds ==
    [][ HandshakeStep
        => \A c \in 1..node.clientCount :
              /\ node.clients[c].responseTick # U32(0)
                    => node'.clients[c].status =
                          Verdict(TickDelta(node.sentTick, node.clients[c].responseTick))
              /\ node'.clients[c].status = UCAN_CONN_WAITING
                    => node.clients[c].status = UCAN_CONN_WAITING ]_vars

\* a delta of exactly 700 is Active, one of exactly 2000 is Lost
C25_Witness ==
    /\ last.op = "uCAN_Handshake"
    /\ started
    /\ node.sentTick = U32(100)
    /\ node.clients[1].responseTick = U32(800)
    /\ node.clients[1].status = UCAN_CONN_ACTIVE
    /\ node.clients[2].responseTick = U32(2100)
    /\ node.clients[2].status = UCAN_CONN_LOST

\* C26: uCAN_Handshake returns UCAN_OK if and only if every client has a
\* responseTick other than zero and is classified Active by the call.  A
\* client whose responseTick is zero makes the call return UCAN_ERROR and
\* keeps its status, and the clients after it are still classified.
C26_Aggregate ==
    [][ HandshakeStep
        => /\ last'.ret = UCAN_OK
                <=> \A c \in 1..node.clientCount :
                       /\ node.clients[c].responseTick # U32(0)
                       /\ node'.clients[c].status = UCAN_CONN_ACTIVE
           /\ last'.ret \in { UCAN_OK, UCAN_ERROR }
           /\ \A c \in 1..node.clientCount :
                 IF node.clients[c].responseTick = U32(0)
                 THEN node'.clients[c] = node.clients[c]
                 ELSE node'.clients[c].status =
                         Verdict(TickDelta(node.sentTick, node.clients[c].responseTick)) ]_vars

\* the first client never answered and keeps Waiting; the second, after
\* it, is classified Timeout; the call reports the error
C26_Witness ==
    /\ last.op = "uCAN_Handshake"
    /\ last.ret = UCAN_ERROR
    /\ started
    /\ node.clients[1].responseTick = U32(0)
    /\ node.clients[1].status = UCAN_CONN_WAITING
    /\ node.sentTick = U32(100)
    /\ node.clients[2].responseTick = U32(900)
    /\ node.clients[2].status = UCAN_CONN_TIMEOUT

\* C27: the status of a client only worsens between two consecutive
\* evaluations by uCAN_Handshake between which no valid response of that
\* client was stored: it does not go from Lost to Timeout or Active, nor
\* from Timeout to Active, whatever pings were sent in between.
C27_MonotoneWorsening ==
    [][ HandshakeStep
        => \A c \in 1..node.clientCount :
              c \notin answered
              => /\ node.clients[c].status = UCAN_CONN_LOST
                       => node'.clients[c].status = UCAN_CONN_LOST
                 /\ node.clients[c].status = UCAN_CONN_TIMEOUT
                       => node'.clients[c].status \in { UCAN_CONN_TIMEOUT, UCAN_CONN_LOST } ]_vars

\* a call of uCAN_Runtime_SendPing on a master
PingStep ==
    /\ last'.op = "uCAN_Runtime_SendPing" /\ tick' = tick
    /\ hcan # NullHandle /\ node.role = UCAN_ROLE_MASTER

\* the ping frame is the one frame of the call
PingSent == Len(last'.bus) = 1 /\ last'.bus[1].call = "HAL_CAN_AddTxMessage"

\* C22 as stated: from sentTick = 0, a ping attempt at tick 100 succeeds (a
\* ping frame is sent) and sets sentTick to 100; a second attempt at tick
\* 300 returns Busy and sends nothing; a third attempt at tick 600 succeeds.
C22_PingScenario ==
    [][ PingStep
        => /\ (node.sentTick = U32(0) /\ tick = U32(100))
                 => PingSent /\ node'.sentTick = U32(100)
           /\ (node.sentTick = U32(100) /\ tick = U32(300))
                 => last'.ret = UCAN_BUSY /\ last'.bus = << >> /\ node' = node
           /\ (node.sentTick = U32(100) /\ tick = U32(600))
                 => PingSent /\ node'.sentTick = U32(600) ]_vars

\* C22 as amended: from sentTick = 0, a ping attempt at tick 100 returns
\* Busy, sends nothing and leaves sentTick at 0; a second attempt at tick
\* 300 returns Busy and sends nothing; a third attempt at tick 600 succeeds
\* (a ping frame is sent) and sets sentTick to 600.
C22_PingScenarioFromZero ==
    [][ PingStep
        => /\ (node.sentTick = U32(0) /\ tick = U32(100))
                 => last'.ret = UCAN_BUSY /\ last'.bus = << >> /\ node' = node
           /\ (node.sentTick = U32(0) /\ tick = U32(300))
                 => last'.ret = UCAN_BUSY /\ last'.bus = << >> /\ node' = node
           /\ (node.sentTick = U32(0) /\ tick = U32(600))
                 => /\ PingSent
                    /\ node'.sentTick = U32(600)
                    /\ last'.bus[1].ok => last'.ret = UCAN_OK ]_vars

\* the third attempt, at tick 600 after three advances of the tick
C22_Witness ==
    /\ last.op = "uCAN_Runtime_SendPing"
    /\ last.ret = UCAN_OK
    /\ node.role = UCAN_ROLE_MASTER
    /\ advances = 3
    /\ tick = U32(600)
    /\ node.sentTick = U32(600)
    /\ Len(last.bus) = 1

\* C23: on a Master, uCAN_Runtime_SendPing submits a ping (one byte 0xA5
\* under the node's own identifier) if and only if (now - sentTick) mod 2^32
\* is at least 500, and stamps sentTick with now; otherwise it returns
\* UCAN_BUSY, sends nothing and leaves sentTick.  Hence a ping, also the one
\* of uCAN_SendAll, is at least 500 ticks after the ping before it, also
\* when the counter wraps between them.
C23_PingInterval ==
    [][ (/\ tick' = tick
         /\ node.role = UCAN_ROLE_MASTER
         /\ \/ last'.op = "uCAN_Runtime_SendPing" /\ hcan # NullHandle
            \/ last'.op = "uCAN_SendAll" /\ status = UCAN_OK /\ last'.ret = UCAN_OK)
        => LET pings == { k \in 1..Len(last'.bus) :
                            /\ last'.bus[k].id = node.selfId
                            /\ last'.bus[k].dlc = 1
                            /\ last'.bus[k].data = << UCAN_HANDSHAKE_REQUEST_VALUE >> }
               n == IF last'.op = "uCAN_SendAll" THEN txHolder.count ELSE 0
               elapsed == U32Sub(tick, node.sentTick)
           IN  IF elapsed.hi > 0 \/ elapsed.lo >= UCAN_HANDSHAKE_INTERVAL_MS
               THEN /\ Len(last'.bus) = n + 1
                    /\ n + 1 \in pings
                    /\ node' = [node EXCEPT !.sentTick = tick]
               ELSE /\ Len(last'.bus) = n
                    /\ node' = node
                    /\ last'.op = "uCAN_Runtime_SendPing" => last'.ret = UCAN_BUSY ]_vars

\* Busy across the wrap: the last ping went out before the wrap, the tick
\* has wrapped since and fewer than 500 ticks have passed
C23_Witness ==
    /\ last.op = "uCAN_Runtime_SendPing"
    /\ last.ret = UCAN_BUSY
    /\ node.role = UCAN_ROLE_MASTER
    /\ last.bus = << >>
    /\ node.sentTick # U32(0)
    /\ U32Lt(tick, node.sentTick)

\* all identifiers of the two lists differ
DistinctIds(txList, rxList) ==
    ~HasRepeat([i \in 1..(Len(txList) + Len(rxList)) |->
                   IF i <= Len(txList) THEN txList[i].id ELSE rxList[i - Len(txList)].id])

\* C28: after validation and the collision check have passed, uCAN_Start
\* calls HAL_CAN_ConfigFilter, HAL_CAN_Start and
\* HAL_CAN_ActivateNotification in this order; the first that fails makes
\* the status and the result UCAN_ERROR_FILTER_CONFIG, UCAN_ERROR_CAN_START
\* or UCAN_ERROR_CAN_NOTIFICATION and no later one is called; the result is
\* UCAN_OK only if all three succeeded.
C28_PrimitiveOrder ==
    [][ (/\ last'.op = "uCAN_Start"
         /\ status = UCAN_OK
         /\ ValidList(config.txPacketList)
         /\ ValidList(config.rxPacketList)
         /\ DistinctIds(config.txPacketList, config.rxPacketList))
        => LET b == last'.bus
               order == << "HAL_CAN_ConfigFilter", "HAL_CAN_Start",
                           "HAL_CAN_ActivateNotification" >>
               fails == << UCAN_ERROR_FILTER_CONFIG, UCAN_ERROR_CAN_START,
                           UCAN_ERROR_CAN_NOTIFICATION >>
           IN  /\ Len(b) \in 1..3
               /\ \A k \in 1..Len(b) : b[k].call = order[k]
               /\ \A k \in 1..(Len(b) - 1) : b[k].ok
               /\ IF b[Len(b)].ok
                  THEN Len(b) = 3 /\ last'.ret = UCAN_OK /\ status' = UCAN_OK
                  ELSE last'.ret = fails[Len(b)] /\ status' = fails[Len(b)] ]_vars

\* HAL_CAN_Start fails after the filter was configured: no notification
C28_Witness ==
    /\ last.op = "uCAN_Start"
    /\ last.ret = UCAN_ERROR_CAN_START
    /\ status = UCAN_ERROR_CAN_START
    /\ Len(last.bus) = 2
    /\ last.bus[1].call = "HAL_CAN_ConfigFilter"
    /\ last.bus[1].ok
    /\ last.bus[2].call = "HAL_CAN_Start"
    /\ ~last.bus[2].ok

\* C29: uCAN_Init returns UCAN_INVALID_PARAM and leaves the status when the
\* HAL handle is missing or the node is a Master without clients; it asks
\* no client list of a Client or None node; on success it sets the status
\* to UCAN_OK and installs the default filter if and only if the filter of
\* the handle is disabled.
C29_InitChecks ==
    [][ (last'.op = "uCAN_Init")
        => IF \/ hcan = NullHandle
              \/ /\ node.role = UCAN_ROLE_MASTER
                 /\ (node.clients = NULL \/ node.clientCount = 0)
           THEN /\ last'.ret = UCAN_INVALID_PARAM
                /\ status' = status
                /\ filter' = filter
           ELSE /\ last'.ret = UCAN_OK
                /\ status' = UCAN_OK
                /\ filter' = IF filter.FilterActivation = CAN_FILTER_DISABLE
                             THEN defaultFilterConfig
                             ELSE filter ]_vars

\* the status uCAN_Debug_CheckPacketConfig owes a list by the documented
\* rules: no list or no packets, then a packet of 0 or more than 8 bytes
ListVerdict(list, holder) ==
    IF list = NULL \/ holder.count = 0
    THEN UCAN_INVALID_PARAM
    ELSE IF \E i \in 1..holder.count : PacketBytes(list[i]) \notin 1..8
    THEN UCAN_MISSING_VAL
    ELSE UCAN_OK

\* C30: uCAN_Start validates both lists before it finalizes anything: if
\* either list fails, neither holder is written or sorted, no collision
\* check and no HAL call is made, and the failure is stored and returned,
\* that of the tx list when both lists fail.
C30_ValidateBeforeFinalize ==
    [][ (/\ last'.op = "uCAN_Start"
         /\ status = UCAN_OK
         /\ \/ ListVerdict(config.txPacketList, txHolder) # UCAN_OK
            \/ ListVerdict(config.rxPacketList, rxHolder) # UCAN_OK)
        => /\ txHolder' = txHolder
           /\ rxHolder' = rxHolder
           /\ last'.bus = << >>
           /\ last'.ret = IF ListVerdict(config.txPacketList, txHolder) # UCAN_OK
                          THEN ListVerdict(config.txPacketList, txHolder)
                          ELSE ListVerdict(config.rxPacketList, rxHolder)
           /\ status' = last'.ret ]_vars

\* both lists fail, the tx list for a packet of 9 bytes and the rx list for
\* being absent: the status is that of the tx list, the holders are blank
C30_Witness ==
    /\ last.op = "uCAN_Start"
    /\ last.ret = UCAN_MISSING_VAL
    /\ status = UCAN_MISSING_VAL
    /\ config.txPacketList = TxLong
    /\ config.rxPacketList = NULL
    /\ txHolder = ZeroHolder(1)
    /\ rxHolder = ZeroHolder(1)

\* C31: on a started Master, for every client the application listed and in
\* whatever order it listed them, a frame that misses the rx table, carries
\* the identifier of that client and has the response value 0x5A in byte 0
\* is recognised: the call returns UCAN_OK and the responseTick of exactly
\* that client becomes the current tick.
C31_PeersFoundInAnyOrder ==
    [][ (/\ UpdateStep
         /\ started
         /\ node.role = UCAN_ROLE_MASTER
         /\ ~InRxTable(last'.bus[1].id)
         /\ PeersOf(node, last'.bus[1].id) # {}
         /\ last'.bus[1].data[1] = UCAN_HANDSHAKE_RESPONSE_VALUE)
        => \E c \in PeersOf(node, last'.bus[1].id) :
              /\ last'.ret = UCAN_OK
              /\ node' = [node EXCEPT !.clients[c].responseTick = tick] ]_vars

\* C32: the holders are written by uCAN_Start alone.  No call of
\* uCAN_SendAll, uCAN_Update or uCAN_Handshake changes the tx or the rx
\* holder (count, order of the packets, identifier, dlc and byte plan of
\* each packet), whatever it returns; a step that changes a holder is a
\* call of uCAN_Start.
C32_HoldersImmutable ==
    [][ /\ (/\ last'.op \in { "uCAN_SendAll", "uCAN_Update", "uCAN_Handshake" }
            /\ tick' = tick)
           => (txHolder' = txHolder /\ rxHolder' = rxHolder)
        /\ (txHolder' # txHolder \/ rxHolder' # rxHolder)
           => last'.op = "uCAN_Start" ]_vars

\* a started node has stored a received frame through the plan of an rx
\* packet: the holders are still the compiled lists
C32_Witness ==
    /\ last.op = "uCAN_Update"
    /\ last.ret = UCAN_OK
    /\ started
    /\ InRxTable(last.bus[1].id)
    /\ mem # Mem0
    /\ txHolder.count = 2
    /\ HolderMatches(txHolder, config.txPacketList)
    /\ HolderMatches(rxHolder, config.rxPacketList)

\* C33: when uCAN_Update, in the receive interrupt, stores the response of a
\* client while uCAN_Handshake is evaluating, at whatever point between the
\* reads of that client's responseTick, a status uCAN_Handshake assigns to
\* the client is the status of the pair (sentTick, responseTick) before the
\* interrupt or that of the pair after it.
C33_PreemptedVerdict ==
    [][ (/\ last'.op = "uCAN_Handshake preempted by uCAN_Update"
         /\ tick' = tick
         /\ started
         /\ last'.assigned)
        => LET c   == last'.arg
               old == node.clients[c].responseTick
           IN  \/ /\ old # U32(0)
                  /\ node'.clients[c].status = Verdict(TickDelta(node.sentTick, old))
               \/ /\ tick # U32(0)
                  /\ node'.clients[c].status = Verdict(TickDelta(node.sentTick, tick)) ]_vars

\* C34: after a yCAN_Init that returned YCAN_OK, every packet of index i of
\* a table yCAN_Finalize_Packet built, the first and the others, has a dlc
\* equal to the sum of the widths of the fields of packet i of the list it
\* was built from, which is the number of byte slots filled for it.
C34_PrototypeDlcPerPacket ==
    (last.op = "yCAN_Init" /\ last.ret = YCAN_OK)
    => \A side \in { << ycan.txMessage, config.txPacketList >>,
                     << ycan.rxMessage, config.rxPacketList >> } :
          side[1].packets # NULL
          => \A i \in 1..side[1].count :
                /\ side[1].packets[i].dlc = PacketBytes(side[2][i])
                /\ side[1].packets[i].dlc
                   = Cardinality({ k \in 1..UCAN_ITEM_CAPACITY :
                                     side[1].packets[i].bits[k] # UninitSlot })

\* C35: on a Master, a client whose valid response uCAN_Update has stored
\* since the latest evaluation, at whatever tick, tick 0 included, is
\* classified by the next uCAN_Handshake: its status becomes that of the
\* tick delta of sentTick and its responseTick, and it counts as an error
\* only if that status is not Active, so that the call returns UCAN_OK when
\* every client has answered and is Active.
C35_AnsweredIsClassified ==
    [][ (HandshakeStep /\ node.role = UCAN_ROLE_MASTER)
        => /\ \A c \in answered :
                 node'.clients[c].status =
                    Verdict(TickDelta(node.sentTick, node.clients[c].responseTick))
           /\ (\A c \in 1..node.clientCount :
                  /\ c \in answered
                  /\ Verdict(TickDelta(node.sentTick, node.clients[c].responseTick))
                     = UCAN_CONN_ACTIVE)
              => last'.ret = UCAN_OK ]_vars

\* C36: uCAN_Runtime_SendPing writes sentTick before it submits the frame.
\* When the submission of a due ping fails, the call returns UCAN_ERROR and
\* sentTick is the current tick all the same; a further call on the master
\* while fewer than 500 ticks have passed since then returns UCAN_BUSY,
\* submits nothing and leaves the node as it is.
C36_FailedPingStillStamps ==
    [][ /\ (PingStep /\ PingSent /\ ~last'.bus[1].ok)
           => /\ last'.ret = UCAN_ERROR
              /\ node' = [node EXCEPT !.sentTick = tick]
        /\ (/\ PingStep
            /\ last.op = "uCAN_Runtime_SendPing"
            /\ last.ret = UCAN_ERROR
            /\ U32Lt(U32Sub(tick, node.sentTick), U32(UCAN_HANDSHAKE_INTERVAL_MS)))
           => /\ last'.ret = UCAN_BUSY
              /\ last'.bus = << >>
              /\ node' = node ]_vars

\* the submission of a due ping has failed and the tick has advanced by less
\* than the interval since: sentTick is the tick of the failed ping
C36_Witness ==
    /\ last.op = "uCAN_Runtime_SendPing"
    /\ last.ret = UCAN_ERROR
    /\ node.role = UCAN_ROLE_MASTER
    /\ Len(last.bus) = 1
    /\ ~last.bus[1].ok
    /\ node.sentTick # U32(0)
    /\ tick # node.sentTick
    /\ U32Lt(U32Sub(tick, node.sentTick), U32(UCAN_HANDSHAKE_INTERVAL_MS))

\* C37: responseTick is written by the processing of a valid response alone,
\* so a client from which none was ever processed has responseTick zero.
\* No call of uCAN_SendAll, uCAN_Update or uCAN_Handshake changes the status
\* of a client whose responseTick is zero, however many pings were sent: it
\* stays what it was at initialisation, never Timeout nor Lost.  As long as
\* there is such a client every uCAN_Handshake that passes the gate returns
\* UCAN_ERROR.
C37_SilentPeerKeepsStatus ==
    [][ /\ (/\ last'.op \in { "uCAN_SendAll", "uCAN_Update", "uCAN_Handshake" }
            /\ tick' = tick
            /\ node.clients # NULL)
           => \A c \in 1..node.clientCount :
                 node.clients[c].responseTick = U32(0)
                 => /\ node'.clients[c].status = node.clients[c].status
                    /\ node.clients[c].status = Client(node.clients[c].id).status
        /\ (/\ HandshakeStep
            /\ \E c \in 1..node.clientCount : node.clients[c].responseTick = U32(0))
           => last'.ret = UCAN_ERROR ]_vars

\* a master that has sent its ping at tick 1200 evaluates: the first client
\* has answered, the second never has and still has the status of its
\* initialisation; the call reports the error
C37_Witness ==
    /\ last.op = "uCAN_Handshake"
    /\ last.ret = UCAN_ERROR
    /\ started
    /\ node.role = UCAN_ROLE_MASTER
    /\ node.sentTick = U32(1200)
    /\ node.clients[1].responseTick # U32(0)
    /\ node.clients[2].responseTick = U32(0)
    /\ node.clients[2].status = UCAN_CONN_ACTIVE

\* uCAN_Update has just stored a valid response of client c of the master
RespondedNow(c) ==
    /\ last.op = "uCAN_Update"
    /\ last.ret = UCAN_OK
    /\ node.role = UCAN_ROLE_MASTER
    /\ last.bus[1].id = node.clients[c].id
    /\ ~InRxTable(last.bus[1].id)

\* C38: on a master whose main loop keeps calling uCAN_SendAll and
\* uCAN_Handshake, a client that has answered at least once and is then
\* silent ends up Lost and stays so: from some point on, whenever its
\* latest response is at least LOST_MS plus one ping interval old, its
\* status is Lost and the latest uCAN_Handshake has returned UCAN_ERROR.
C38_SilentPeerGetsLost ==
    <>RespondedNow(1)
    => <>[](\/ U32Lt(U32Sub(tick, node.clients[1].responseTick),
                     U32(UCAN_HANDSHAKE_LOST_MS + UCAN_HANDSHAKE_INTERVAL_MS))
            \/ /\ node.clients[1].status = UCAN_CONN_LOST
               /\ last.op = "uCAN_Handshake" => last.ret = UCAN_ERROR)

\* the client c of the master has answered the latest ping fewer than
\* TIMEOUT_MS ticks after it, or that ping is not yet that old
Responsive(c) ==
    \/ /\ U32Leq(node.sentTick, node.clients[c].responseTick)
       /\ U32Lt(U32Sub(node.clients[c].responseTick, node.sentTick),
                U32(UCAN_HANDSHAKE_TIMEOUT_MS))
    \/ U32Lt(U32Sub(tick, node.sentTick), U32(UCAN_HANDSHAKE_TIMEOUT_MS))

\* C39: on a master, a client that answers every ping fewer than TIMEOUT_MS
\* ticks after it (at every moment the latest ping is answered in time or
\* is younger than that) has the status Active after every evaluation by
\* uCAN_Handshake, whenever the evaluation takes place and however far
\* apart the pings are.
C39_ResponsiveStaysActive ==
    [](node.clients # NULL /\ Responsive(1))
    => [](last.op = "uCAN_Handshake" => node.clients[1].status = UCAN_CONN_ACTIVE)

\* C40: uCAN_Init on a handle with a HAL handle and a client list returns
\* UCAN_OK and sets the status to UCAN_OK whatever the status was, a latched
\* failure of uCAN_Start included; a uCAN_Init that fails returns
\* UCAN_INVALID_PARAM and leaves the status as it was.  A status at which
\* the ready gate returns is left by no other call: a step that changes it
\* is a uCAN_Init.
C40_InitResetsStatus ==
    [][ /\ (last'.op = "uCAN_Init" /\ tick' = tick)
           => IF hcan # NullHandle /\ node.clients # NULL
              THEN last'.ret = UCAN_OK /\ status' = UCAN_OK
              ELSE last'.ret = UCAN_INVALID_PARAM /\ status' = status
        /\ (UCAN_CHECK_READY(status) # READY /\ status' # status)
           => last'.op = "uCAN_Init" ]_vars

\* uCAN_Init has returned UCAN_OK on a handle whose holders were compiled by
\* a uCAN_Start that failed: the status is UCAN_OK again
C40_Witness ==
    /\ last.op = "uCAN_Init"
    /\ last.ret = UCAN_OK
    /\ status = UCAN_OK
    /\ ~started
    /\ config.txPacketList = TxGood
    /\ HolderMatches(txHolder, config.txPacketList)

=============================================================================
